---- MODULE Spec2Model ----
(***************************************************************************)
(* Model of the sequential tool-calling orchestrator of the course RAG     *)
(* backend (backend/ai_generator.py, class AIGenerator).                   *)
(*                                                                         *)
(* One behaviour is one call of AIGenerator.generate_response.  The model  *)
(* service and the tool manager are the environment: a model call either   *)
(* fails or returns a reply {stop_reason, content}; a tool call either     *)
(* returns a string or raises.  A reply's content is None or a list of     *)
(* blocks; a block is a text block (has .text), a tool_use block (has      *)
(* .id/.name/.input, no .text) or any other block (neither).  Texts and    *)
(* call ids carry the index of the reply and of the block they come from,  *)
(* so that an answer tells which reply produced it.                        *)
(***************************************************************************)
EXTENDS Integers, Sequences, FiniteSets, TLC

\* Largest number of content blocks in one model reply.
MaxBlocks == 2

\* Cap on the model calls of one query, used in the guards of the model-call
\* actions only; CapNeverBinds shows the code never reaches it.
MaxCalls == 4

\* max_rounds default of _handle_sequential_tool_execution.
MAX_ROUNDS == 2

VARIABLES
    pc,                       \* position inside generate_response
    path,                     \* which handler is running / has run
    tools,                    \* argument `tools` (<<>> when not given)
    tool_manager,             \* argument `tool_manager` is given (truthy)
    enable_sequential_tools,  \* argument `enable_sequential_tools`
    base_messages,            \* api_params["messages"] of generate_response
    messages,                 \* local `messages` of the running tool handler
    initial_response,         \* `response` of generate_response
    current_response,         \* `current_response` of the sequential handler
    round_count,              \* `round_count` of the sequential handler
    outcome,                  \* what generate_response returned or raised
    replies,                  \* history: replies received, in order
    calls,                    \* history: parameters of every model call issued
    call_failed,              \* history: for every model call, did it fail
    rounds,                   \* history: every completed _execute_tools_for_round
    faults                    \* history: handlers in which a round raised,
                              \* with the number of model calls issued so far

\* State of the tool registry (backend/search_tools.py).
VARIABLES
    registry,                 \* ToolManager.tools: <<[name, tool]>> in insertion order
    last_sources,             \* last_sources of every tool object
    op                        \* history: the last registry operation and its result

registry_vars == <<registry, last_sources, op>>

\* State of the callers of the query entry point.
VARIABLES
    qstatus,                  \* per caller: position inside query()
    qgot,                     \* per caller: the sources query() has collected
    qgot_writer,              \* history: whose execution recorded the collected list
    qlast,                    \* history: the most recent tool execution of this query
    qexecuted,                \* number of tool executions of this query
    qprev,                    \* history: how the caller's previous query ended
    writer,                   \* history: per tool, whose execution recorded its list
    qlost                     \* history: unread citations of this query were overwritten or cleared

query_vars == <<qstatus, qgot, qgot_writer, qlast, qexecuted, qprev, writer, qlost>>

\* State of the retrieval engine.
VARIABLES
    store                     \* the index, the catalog and the configuration of the engine

engine_vars == <<store>>

orchestrator_vars ==
    <<pc, path, tools, tool_manager, enable_sequential_tools, base_messages,
      messages, initial_response, current_response, round_count, outcome,
      replies, calls, call_failed, rounds, faults>>

vars == <<pc, path, tools, tool_manager, enable_sequential_tools, base_messages,
          messages, initial_response, current_response, round_count, outcome,
          replies, calls, call_failed, rounds, faults, registry_vars, query_vars,
          engine_vars>>

----------------------------------------------------------------------------
\* Values

StopReasons == {"tool_use", "end_turn"}

BlockKinds == {"text", "tool_use", "other"}

ToolDefinitions == <<"search_course_content", "get_course_outline">>

SYSTEM_CONTENT == "system_content"

UserQuery == "query"

NoResponse == [stop_reason |-> "none", content_none |-> TRUE, content |-> <<>>]

NoOutcome == [kind |-> "none", value |-> <<>>]

Return(v) == [kind |-> "return", value |-> v]

Raise(v) == [kind |-> "raise", value |-> v]

\* Block i of the k-th reply, of the given kind.
MkBlock(k, i, kind) ==
    IF kind = "text" THEN [type |-> "text", text |-> <<"text", k, i>>]
    ELSE IF kind = "tool_use"
         THEN [type |-> "tool_use", id |-> <<"toolu", k, i>>,
               name |-> "search_course_content", input |-> <<"query", k, i>>]
         ELSE [type |-> "thinking"]

KindSeqs == UNION {[1..n -> BlockKinds] : n \in 0..MaxBlocks}

\* The k-th reply of the model service.
MkResponse(k, stop, none, kinds) ==
    [stop_reason |-> stop,
     content_none |-> none,
     content |-> IF none THEN <<>> ELSE [i \in 1..Len(kinds) |-> MkBlock(k, i, kinds[i])]]

\* All replies the model service can give to the k-th call.
Responses(k) ==
    {MkResponse(k, s, FALSE, ks) : s \in StopReasons, ks \in KindSeqs}
    \cup {MkResponse(k, s, TRUE, <<>>) : s \in StopReasons}

----------------------------------------------------------------------------
\* Pure parts of the handlers

\* hasattr(block, 'text')
HasText(block) == "text" \in DOMAIN block

\* `not response.content or len(response.content) == 0`
ContentEmpty(response) == response.content_none \/ Len(response.content) = 0

\* Variant of the direct return that degrades to a placeholder.
DirectResult_Placeholder(response) ==
    IF ContentEmpty(response)
    THEN Return(<<"No response generated from Claude API">>)
    ELSE IF ~HasText(response.content[1])
         THEN Return(<<"Unexpected response format from Claude API">>)
         ELSE Return(response.content[1].text)

\* generate_response, direct return.
DirectResult(response) ==
    IF ContentEmpty(response)
    THEN Raise(<<"Empty response from Claude API (stop_reason: ", response.stop_reason>>)
    ELSE IF ~HasText(response.content[1])
         THEN Raise(<<"Unexpected content type in response: ", response.content[1].type>>)
         ELSE Return(response.content[1].text)

\* Variant of the sequential final return that raises like the direct one.
SequentialResult_Raises(response) ==
    IF ContentEmpty(response)
    THEN Raise(<<"Empty response from Claude API (stop_reason: ", response.stop_reason>>)
    ELSE IF ~HasText(response.content[1])
         THEN Raise(<<"Unexpected content type in response: ", response.content[1].type>>)
         ELSE Return(response.content[1].text)

\* _handle_sequential_tool_execution, final return.
SequentialResult(response) ==
    IF ContentEmpty(response)
    THEN Return(<<"No response generated from Claude API">>)
    ELSE IF ~HasText(response.content[1])
         THEN Return(<<"Unexpected response format from Claude API">>)
         ELSE Return(response.content[1].text)

\* Variant of the single-round final return that raises like the direct one.
SingleResult_Raises(response) ==
    IF ContentEmpty(response)
    THEN Raise(<<"Empty response from Claude API (stop_reason: ", response.stop_reason>>)
    ELSE IF ~HasText(response.content[1])
         THEN Raise(<<"Unexpected content type in response: ", response.content[1].type>>)
         ELSE Return(response.content[1].text)

\* _handle_tool_execution, final return.
SingleResult(response) ==
    IF ContentEmpty(response)
    THEN Return(<<"No response generated after tool execution">>)
    ELSE IF ~HasText(response.content[1])
         THEN Return(<<"Unexpected response format after tool execution">>)
         ELSE Return(response.content[1].text)

\* Variant of the while condition without the round bound.
LoopContinues_Unbounded(response, rc, tm) ==
    /\ response.stop_reason = "tool_use"
    /\ tm

\* Variant of the while condition with the bound off by one.
LoopContinues_OffByOne(response, rc, tm) ==
    /\ response.stop_reason = "tool_use"
    /\ rc <= MAX_ROUNDS
    /\ tm

\* Variant of the while condition that does not look at stop_reason.
LoopContinues_AnyStop(response, rc, tm) ==
    /\ rc < MAX_ROUNDS
    /\ tm

\* The while condition of _handle_sequential_tool_execution.
LoopContinues(response, rc, tm) ==
    /\ response.stop_reason = "tool_use"
    /\ rc < MAX_ROUNDS
    /\ tm

\* The tool_use blocks of a reply, in order.
ToolBlocks(response) ==
    SelectSeq(response.content, LAMBDA b : b.type = "tool_use")

ToolIds(response) ==
    {ToolBlocks(response)[i].id : i \in 1..Len(ToolBlocks(response))}

\* `for content_block in response.content` raises TypeError on None.
RoundRaises(response) == response.content_none

\* One entry of tool_results: a returned string, or the caught exception.
ToolResult(block, raised) ==
    IF raised
    THEN [type |-> "tool_result", tool_use_id |-> block.id,
          content |-> <<"Tool execution error: ", <<"exc", block.id>>>>,
          is_error |-> TRUE]
    ELSE [type |-> "tool_result", tool_use_id |-> block.id,
          content |-> <<"result", block.id>>]

\* Variant of _execute_tools_for_round in which the first raising call ends
\* the round: only the results before it are kept.
ExecuteToolsForRound_AbortOnRaise(response, raising) ==
    LET tb == ToolBlocks(response)
        ok == {n \in 0..Len(tb) : \A i \in 1..n : tb[i].id \notin raising}
        last == CHOOSE n \in ok : \A m \in ok : m <= n
    IN [i \in 1..last |-> ToolResult(tb[i], FALSE)]

\* _execute_tools_for_round: `raising` are the ids of the calls whose
\* tool_manager.execute_tool raises.
ExecuteToolsForRound(response, raising) ==
    [i \in 1..Len(ToolBlocks(response)) |->
        ToolResult(ToolBlocks(response)[i], ToolBlocks(response)[i].id \in raising)]

\* Variant of the round that makes every call of the reply a second time.
Dispatched_Retries(response) ==
    [i \in 1..(2 * Len(ToolBlocks(response))) |->
        ToolBlocks(response)[((i - 1) % Len(ToolBlocks(response))) + 1].id]

\* The calls of tool_manager.execute_tool made by one round, in order.
Dispatched(response) ==
    [i \in 1..Len(ToolBlocks(response)) |-> ToolBlocks(response)[i].id]

AssistantTurn(response) == [role |-> "assistant", content |-> response.content]

\* Variant of the results turn that keeps the first result only.
ToolResultTurn_FirstOnly(results) == [role |-> "user", content |-> <<results[1]>>]

ToolResultTurn(results) == [role |-> "user", content |-> results]

\* api_params of generate_response.
InitialParams(ms, tls) ==
    IF tls # <<>>
    THEN [messages |-> ms, system |-> SYSTEM_CONTENT, tools |-> tls, tool_choice |-> "auto"]
    ELSE [messages |-> ms, system |-> SYSTEM_CONTENT]

\* Variant of next_params that drops the tools.
NextParams_NoTools(ms, tls) == [messages |-> ms, system |-> SYSTEM_CONTENT]

\* next_params of the sequential handler: base_params.get("tools", []).
NextParams(ms, tls) ==
    [messages |-> ms, system |-> SYSTEM_CONTENT, tools |-> tls, tool_choice |-> "auto"]

\* Variant of final_params that still advertises the tools.
FinalParams_AdvertisesTools(ms) ==
    [messages |-> ms, system |-> SYSTEM_CONTENT, tools |-> tools, tool_choice |-> "auto"]

\* final_params of the single-round handler: no tools.
FinalParams(ms) == [messages |-> ms, system |-> SYSTEM_CONTENT]

RoundRecord(p, k, response, raising) ==
    [path |-> p, reply |-> k, raised |-> raising,
     dispatched |-> Dispatched(response),
     results |-> ExecuteToolsForRound(response, raising)]

----------------------------------------------------------------------------
\* Tools and tool registry (backend/search_tools.py)
\*
\* A Python string built by an f-string is the sequence of its pieces; an
\* Optional value is <<>> for None and <<v>> for v.

\* Largest number of hits in one search result of the store.
MaxHits == 2

\* The tool objects: one CourseSearchTool, one CourseOutlineTool and a tool
\* whose definition carries no name.
SEARCH_TOOL == "CourseSearchTool"

OUTLINE_TOOL == "CourseOutlineTool"

NAMELESS_TOOL == "NamelessTool"

ToolObjs == {SEARCH_TOOL, OUTLINE_TOOL, NAMELESS_TOOL}

\* A second object of each tool class, for registrations under a name that
\* is already taken.
SEARCH_TOOL_2 == "CourseSearchTool#2"

OUTLINE_TOOL_2 == "CourseOutlineTool#2"

Instances == ToolObjs \cup {SEARCH_TOOL_2, OUTLINE_TOOL_2}

\* get_tool_definition().get("name")
ToolName(tool) ==
    IF tool \in {SEARCH_TOOL, SEARCH_TOOL_2} THEN <<"search_course_content">>
    ELSE IF tool \in {OUTLINE_TOOL, OUTLINE_TOOL_2} THEN <<"get_course_outline">>
    ELSE <<>>

\* Tool names a caller may ask the registry for.
RequestedNames == {"search_course_content", "get_course_outline", "nonexistent_tool"}

\* str(n) of a small number.
Str(n) == <<"0", "1", "2", "3", "4", "5", "6", "7", "8", "9">>[n + 1]

\* Python truthiness of an Optional[int] and of an Optional[str].
TruthyInt(x) == x # <<>> /\ x[1] # 0

TruthyStr(x) == x # <<>> /\ x[1] # ""

\* The course catalog of the store.
Titles == {"A", "B"}

\* store.get_course_link(title)
CourseLink(title) == IF title = "A" THEN <<"https://a">> ELSE <<>>

\* store.get_lesson_link(title, lesson)
LessonLink(title, lesson) ==
    IF title = "A" /\ lesson = 0 THEN <<"https://a/0">> ELSE <<>>

\* The values store.get_course_outline can find for a title.
Outline(title) ==
    IF title = "A"
    THEN [course_title |-> "A", course_link |-> <<"https://a">>, instructor |-> <<"I">>,
          lessons |-> <<[lesson_number |-> 0, lesson_title |-> "Intro"]>>]
    ELSE [course_title |-> title, course_link |-> <<>>, instructor |-> <<>>,
          lessons |-> <<>>]

\* Arguments of the tools.
CourseNames == {<<>>, <<"A">>, <<"X">>}

LessonNumbers == {<<>>, <<0>>, <<1>>}

\* Metadata of the chunks in the store: a chunk of lesson 0 of course A and
\* a chunk of course B that belongs to no lesson.
Metas ==
    {[course_title |-> "A", lesson_number |-> <<0>>],
     [course_title |-> "B", lesson_number |-> <<>>]}

\* SearchResults(documents, metadata, distances): hits.
HitResults(metas) ==
    [documents |-> [i \in 1..Len(metas) |-> <<"doc", Str(i)>>],
     metadata |-> metas,
     distances |-> [i \in 1..Len(metas) |-> i],
     error |-> <<>>]

\* SearchResults.empty(error_msg)
ErrorResults(msg) ==
    [documents |-> <<>>, metadata |-> <<>>, distances |-> <<>>, error |-> msg]

\* What store.search can return for a course_name argument.
SearchOutcomes(course_name) ==
    {HitResults(m) : m \in UNION {[1..n -> Metas] : n \in 0..MaxHits}}
    \cup {ErrorResults(<<"Test error message">>)}
    \cup (IF course_name # <<>> /\ course_name[1] \notin Titles
          THEN {ErrorResults(<<"No course found matching '", course_name[1], "'">>)}
          ELSE {})

\* What store.get_course_outline can return: the outline of the course the
\* reference resolves to, an exact title resolving to itself, or None.
OutlineOutcomes(course_name) ==
    IF course_name[1] \in Titles
    THEN {<<Outline(course_name[1])>>}
    ELSE {<<>>} \cup {<<Outline(t)>> : t \in Titles}

\* SearchResults.is_empty()
IsEmpty(results) == Len(results.documents) = 0

\* Concatenation of a sequence of piece sequences, `sep` between entries.
RECURSIVE Join(_, _)
Join(entries, sep) ==
    IF entries = <<>> THEN <<>>
    ELSE IF Len(entries) = 1 THEN entries[1]
    ELSE entries[1] \o sep \o Join(Tail(entries), sep)

\* The header of one formatted hit.
ResultHeader(meta) ==
    <<"[", meta.course_title>>
    \o (IF meta.lesson_number # <<>>
        THEN <<" - Lesson ", Str(meta.lesson_number[1])>>
        ELSE <<>>)
    \o <<"]">>

\* A source that always links to the course.
ResultSource_CourseLinkOnly(meta) ==
    [text |-> IF meta.lesson_number # <<>>
              THEN <<meta.course_title, " - Lesson ", Str(meta.lesson_number[1])>>
              ELSE <<meta.course_title>>,
     url |-> CourseLink(meta.course_title)]

\* The source recorded for one hit.
ResultSource(meta) ==
    IF meta.lesson_number # <<>>
    THEN [text |-> <<meta.course_title, " - Lesson ", Str(meta.lesson_number[1])>>,
          url |-> IF TruthyStr(LessonLink(meta.course_title, meta.lesson_number[1]))
                  THEN LessonLink(meta.course_title, meta.lesson_number[1]) ELSE <<>>]
    ELSE [text |-> <<meta.course_title>>,
          url |-> IF TruthyStr(CourseLink(meta.course_title))
                  THEN CourseLink(meta.course_title) ELSE <<>>]

\* zip(results.documents, results.metadata)
ZipLen(results) ==
    IF Len(results.documents) <= Len(results.metadata)
    THEN Len(results.documents) ELSE Len(results.metadata)

\* CourseSearchTool._format_results: the text and the new last_sources.
FormatResults(results) ==
    [result |-> Join([i \in 1..ZipLen(results) |->
                        ResultHeader(results.metadata[i]) \o <<"\n">> \o results.documents[i]],
                     <<"\n\n">>),
     last_sources |-> [i \in 1..ZipLen(results) |-> ResultSource(results.metadata[i])]]

\* The message of CourseSearchTool.execute for an empty result.
NoContentMessage(course_name, lesson_number) ==
    <<"No relevant content found">>
    \o (IF TruthyStr(course_name) THEN <<" in course '", course_name[1], "'">> ELSE <<>>)
    \o (IF TruthyInt(lesson_number) THEN <<" in lesson ", Str(lesson_number[1])>> ELSE <<>>)
    \o <<".">>

\* execute that tests for an empty result before it tests for an error.
SearchExecute_EmptyFirst(course_name, lesson_number, results, prev) ==
    IF IsEmpty(results)
    THEN [result |-> NoContentMessage(course_name, lesson_number),
          last_sources |-> prev]
    ELSE IF results.error # <<>>
         THEN [result |-> results.error, last_sources |-> prev]
         ELSE FormatResults(results)

\* execute that reports a store error as an empty result.
SearchExecute_SwallowsError(course_name, lesson_number, results, prev) ==
    IF results.error # <<>> \/ IsEmpty(results)
    THEN [result |-> NoContentMessage(course_name, lesson_number),
          last_sources |-> prev]
    ELSE FormatResults(results)

\* CourseSearchTool.execute: `results` is what store.search returned, `prev`
\* the tool's last_sources before the call.
SearchExecute(course_name, lesson_number, results, prev) ==
    IF results.error # <<>>
    THEN [result |-> results.error, last_sources |-> prev]
    ELSE IF IsEmpty(results)
         THEN [result |-> NoContentMessage(course_name, lesson_number),
               last_sources |-> prev]
         ELSE FormatResults(results)

\* CourseOutlineTool._format_outline
FormatOutline(outline_data) ==
    [result |->
        <<"**", outline_data.course_title, "**\n">>
        \o (IF TruthyStr(outline_data.instructor)
            THEN <<"Instructor: ", outline_data.instructor[1], "\n">> ELSE <<>>)
        \o (IF TruthyStr(outline_data.course_link)
            THEN <<"Course Link: ", outline_data.course_link[1], "\n">> ELSE <<>>)
        \o <<"\n**Course Outline:**\n">>
        \o (IF outline_data.lessons # <<>>
            THEN Join([i \in 1..Len(outline_data.lessons) |->
                         <<"Lesson ", Str(outline_data.lessons[i].lesson_number), ": ",
                           outline_data.lessons[i].lesson_title, "\n">>], <<>>)
            ELSE <<"No lessons available\n">>),
     last_sources |-> <<[text |-> <<outline_data.course_title, " - Course Outline">>,
                         url |-> outline_data.course_link]>>]

\* execute that adds the outline's source to the sources it already has.
OutlineExecute_Appends(course_name, found, prev) ==
    IF found = <<>>
    THEN [result |-> <<"No course found matching '", course_name[1], "'">>,
          last_sources |-> prev]
    ELSE [result |-> FormatOutline(found[1]).result,
          last_sources |-> prev \o FormatOutline(found[1]).last_sources]

\* CourseOutlineTool.execute: `found` is what store.get_course_outline returned.
OutlineExecute(course_name, found, prev) ==
    IF found = <<>>
    THEN [result |-> <<"No course found matching '", course_name[1], "'">>,
          last_sources |-> prev]
    ELSE FormatOutline(found[1])

\* `tool_name in self.tools`
Registered(reg, name) == \E i \in 1..Len(reg) : reg[i].name = name

\* self.tools[tool_name]
Lookup(reg, name) == reg[CHOOSE i \in 1..Len(reg) : reg[i].name = name].tool

\* register_tool without the check of the name.
RegisterTool_NoCheck(reg, tool) ==
    [raised |-> FALSE,
     tools |-> Append(reg, [name |-> IF ToolName(tool) = <<>> THEN "" ELSE ToolName(tool)[1],
                            tool |-> tool])]

\* register_tool that keeps the tool registered first under a name.
RegisterTool_KeepsEarlier(reg, tool) ==
    IF ~TruthyStr(ToolName(tool))
    THEN [raised |-> TRUE, tools |-> reg]
    ELSE [raised |-> FALSE,
          tools |-> IF Registered(reg, ToolName(tool)[1])
                    THEN reg
                    ELSE Append(reg, [name |-> ToolName(tool)[1], tool |-> tool])]

\* ToolManager.register_tool: self.tools afterwards, and whether it raised.
RegisterTool(reg, tool) ==
    IF ~TruthyStr(ToolName(tool))
    THEN [raised |-> TRUE, tools |-> reg]
    ELSE [raised |-> FALSE,
          tools |-> IF Registered(reg, ToolName(tool)[1])
                    THEN [i \in 1..Len(reg) |->
                            IF reg[i].name = ToolName(tool)[1]
                            THEN [name |-> reg[i].name, tool |-> tool]
                            ELSE reg[i]]
                    ELSE Append(reg, [name |-> ToolName(tool)[1], tool |-> tool])]

\* ToolManager.get_tool_definitions: the advertised names.
GetToolDefinitions(reg) == [i \in 1..Len(reg) |-> ToolName(reg[i].tool)[1]]

\* execute_tool that forgets every tool's sources when the name is unknown.
ExecuteTool_NotFoundClears(reg, ls, name, course_name, lesson_number, found) ==
    IF ~Registered(reg, name)
    THEN [result |-> <<"Tool '", name, "' not found">>, executed |-> <<>>,
          last_sources |-> [t \in ToolObjs |-> <<>>]]
    ELSE LET tool == Lookup(reg, name)
             r == IF tool = SEARCH_TOOL
                  THEN SearchExecute(course_name, lesson_number, found, ls[tool])
                  ELSE OutlineExecute(course_name, found, ls[tool])
         IN [result |-> r.result, executed |-> <<tool>>,
             last_sources |-> [ls EXCEPT ![tool] = r.last_sources]]

\* ToolManager.execute_tool: the returned string, the tool whose execute ran
\* and every tool's last_sources afterwards.  `found` is what the store
\* returns to the tool.
ExecuteTool(reg, ls, name, course_name, lesson_number, found) ==
    IF ~Registered(reg, name)
    THEN [result |-> <<"Tool '", name, "' not found">>, executed |-> <<>>,
          last_sources |-> ls]
    ELSE LET tool == Lookup(reg, name)
             r == IF tool = SEARCH_TOOL
                  THEN SearchExecute(course_name, lesson_number, found, ls[tool])
                  ELSE OutlineExecute(course_name, found, ls[tool])
         IN [result |-> r.result, executed |-> <<tool>>,
             last_sources |-> [ls EXCEPT ![tool] = r.last_sources]]

\* get_last_sources that keeps the last non-empty list of the scan.
GetLastSources_LastWins(reg, ls) ==
    LET nonempty == {i \in 1..Len(reg) : ls[reg[i].tool] # <<>>} IN
    IF nonempty = {} THEN <<>>
    ELSE ls[reg[CHOOSE i \in nonempty : \A j \in nonempty : i >= j].tool]

\* ToolManager.get_last_sources
GetLastSources(reg, ls) ==
    LET nonempty == {i \in 1..Len(reg) : ls[reg[i].tool] # <<>>} IN
    IF nonempty = {} THEN <<>>
    ELSE ls[reg[CHOOSE i \in nonempty : \A j \in nonempty : i <= j].tool]

\* reset_sources that stops after the first tool.
ResetSources_FirstOnly(reg, ls) ==
    [t \in ToolObjs |-> IF reg # <<>> /\ reg[1].tool = t THEN <<>> ELSE ls[t]]

\* ToolManager.reset_sources
ResetSources(reg, ls) ==
    [t \in ToolObjs |-> IF \E i \in 1..Len(reg) : reg[i].tool = t THEN <<>> ELSE ls[t]]

NoOp == [kind |-> "none"]

\* Registry operations, one test-style call each.

\* manager.register_tool(tool)
DoRegister ==
    /\ \E tool \in ToolObjs :
        LET r == RegisterTool(registry, tool) IN
        /\ registry' = r.tools
        /\ op' = [kind |-> "register", tool |-> tool, raised |-> r.raised]
    /\ UNCHANGED <<last_sources, orchestrator_vars, engine_vars, query_vars>>

\* manager.execute_tool("search_course_content", query, course_name, lesson_number)
DoExecuteSearch ==
    /\ Registered(registry, "search_course_content")
    /\ \E course_name \in CourseNames, lesson_number \in LessonNumbers :
        \E found \in SearchOutcomes(course_name) :
            LET r == ExecuteTool(registry, last_sources, "search_course_content",
                                 course_name, lesson_number, found) IN
            /\ last_sources' = r.last_sources
            /\ op' = [kind |-> "execute", name |-> "search_course_content",
                      course_name |-> course_name, lesson_number |-> lesson_number,
                      found |-> found, result |-> r.result, executed |-> r.executed]
    /\ UNCHANGED <<registry, orchestrator_vars, engine_vars, query_vars>>

\* manager.execute_tool("get_course_outline", course_name)
DoExecuteOutline ==
    /\ Registered(registry, "get_course_outline")
    /\ \E course_name \in CourseNames \ {<<>>} :
       \E found \in OutlineOutcomes(course_name) :
        LET r == ExecuteTool(registry, last_sources, "get_course_outline",
                             course_name, <<>>, found) IN
        /\ last_sources' = r.last_sources
        /\ op' = [kind |-> "execute", name |-> "get_course_outline",
                  course_name |-> course_name, lesson_number |-> <<>>,
                  found |-> found, result |-> r.result, executed |-> r.executed]
    /\ UNCHANGED <<registry, orchestrator_vars, engine_vars, query_vars>>

\* manager.execute_tool(name, ...) for a name that is not registered
DoExecuteUnregistered ==
    /\ \E name \in RequestedNames, course_name \in CourseNames :
        /\ ~Registered(registry, name)
        /\ LET r == ExecuteTool(registry, last_sources, name, course_name, <<>>, <<>>) IN
           /\ last_sources' = r.last_sources
           /\ op' = [kind |-> "execute", name |-> name,
                     course_name |-> course_name, lesson_number |-> <<>>,
                     found |-> <<>>, result |-> r.result, executed |-> r.executed]
    /\ UNCHANGED <<registry, orchestrator_vars, engine_vars, query_vars>>

\* manager.get_last_sources()
DoGetLastSources ==
    /\ op' = [kind |-> "get_last_sources", result |-> GetLastSources(registry, last_sources)]
    /\ UNCHANGED <<registry, last_sources, orchestrator_vars, engine_vars, query_vars>>

\* manager.reset_sources()
DoResetSources ==
    /\ last_sources' = ResetSources(registry, last_sources)
    /\ op' = [kind |-> "reset_sources",
              cleared |-> {t \in ToolObjs : last_sources[t] # <<>>}]
    /\ UNCHANGED <<registry, orchestrator_vars, engine_vars, query_vars>>

RegistryNext ==
    \/ DoRegister
    \/ DoExecuteSearch
    \/ DoExecuteOutline
    \/ DoExecuteUnregistered
    \/ DoGetLastSources
    \/ DoResetSources

\* No caller and no registry operation takes part in the behaviour.
Callers == {1, 2}

QueriesUnused ==
    /\ qstatus = [q \in Callers |-> "off"]
    /\ qgot = [q \in Callers |-> <<>>]
    /\ qgot_writer = [q \in Callers |-> <<>>]
    /\ qlast = [q \in Callers |-> <<>>]
    /\ qexecuted = [q \in Callers |-> 0]
    /\ qprev = [q \in Callers |-> "none"]
    /\ writer = [t \in ToolObjs |-> <<>>]
    /\ qlost = [q \in Callers |-> FALSE]

\* No retrieval engine takes part in the behaviour: the tools' results are
\* drawn from the results an engine can return.
NoStore == [unused |-> TRUE]

EngineUnused == store = NoStore

\* ToolManager.__init__ and the tools' __init__.
RegistryUnused ==
    /\ registry = <<>>
    /\ last_sources = [t \in ToolObjs |-> <<>>]
    /\ op = NoOp

\* No generate_response call takes part in the behaviour.
OrchestratorUnused ==
    /\ pc = "off"
    /\ path = "none"
    /\ tools = <<>>
    /\ tool_manager = FALSE
    /\ enable_sequential_tools = FALSE
    /\ base_messages = <<>>
    /\ messages = <<>>
    /\ initial_response = NoResponse
    /\ current_response = NoResponse
    /\ round_count = 0
    /\ outcome = NoOutcome
    /\ replies = <<>>
    /\ calls = <<>>
    /\ call_failed = <<>>
    /\ rounds = <<>>
    /\ faults = <<>>

\* A fresh ToolManager and fresh tools, driven call by call.
RegistryInit ==
    /\ OrchestratorUnused
    /\ QueriesUnused
    /\ EngineUnused
    /\ RegistryUnused

RegistrySpec == RegistryInit /\ [][RegistryNext]_vars

----------------------------------------------------------------------------
\* The query entry point: answer, collect the citations, clear them.
\*
\* One query is one run of the orchestrator, seen from the registry as a
\* sequence of tool executions, followed by one get_last_sources and one
\* reset_sources call.

\* Largest number of tool executions of one query.
MaxExecutions == 2

\* Where a caller stands after its query: a caller that has the registry to
\* itself issues query after query, callers that share it issue one each.
AfterQuery(q) ==
    IF \A p \in Callers \ {q} : qstatus[p] = "off" THEN "idle" ELSE "done"

\* A caller starts a query.
QueryStart(q) ==
    /\ qstatus[q] = "idle"
    /\ qstatus' = [qstatus EXCEPT ![q] = "answering"]
    /\ qexecuted' = [qexecuted EXCEPT ![q] = 0]
    /\ qlast' = [qlast EXCEPT ![q] = <<>>]
    /\ qlost' = [qlost EXCEPT ![q] = FALSE]
    /\ UNCHANGED <<qgot, qgot_writer, qprev, writer, registry_vars, orchestrator_vars, engine_vars>>

\* The effect of one execute_tool call of caller q on the lists and on the
\* record of who wrote them: `wrote` tells whether the executed tool
\* assigned its last_sources.
QueryExecuted(q, r, wrote) ==
    /\ qstatus[q] = "answering"
    /\ qexecuted[q] < MaxExecutions
    /\ last_sources' = r.last_sources
    /\ qexecuted' = [qexecuted EXCEPT ![q] = @ + 1]
    /\ qlast' = [qlast EXCEPT ![q] =
                    IF r.executed = <<>> THEN @
                    ELSE <<[tool |-> r.executed[1], wrote |-> wrote]>>]
    /\ writer' = IF wrote THEN [writer EXCEPT ![r.executed[1]] = <<q>>] ELSE writer
    /\ qlost' = [p \in Callers |->
                    \/ qlost[p]
                    \/ /\ wrote
                       /\ p # q
                       /\ qstatus[p] = "answering"
                       /\ writer[r.executed[1]] = <<p>>]
    /\ UNCHANGED <<qstatus, qgot, qgot_writer, qprev, registry, op, orchestrator_vars, engine_vars>>

\* The orchestrator of caller q executes the content search tool.
QueryExecuteSearch(q) ==
    \E course_name \in CourseNames, lesson_number \in LessonNumbers :
        \E found \in SearchOutcomes(course_name) :
            QueryExecuted(q,
                          ExecuteTool(registry, last_sources, "search_course_content",
                                      course_name, lesson_number, found),
                          found.error = <<>> /\ ~IsEmpty(found))

\* The orchestrator of caller q executes the course outline tool.
QueryExecuteOutline(q) ==
    \E course_name \in CourseNames \ {<<>>} :
        \E found \in OutlineOutcomes(course_name) :
            QueryExecuted(q,
                          ExecuteTool(registry, last_sources, "get_course_outline",
                                      course_name, <<>>, found),
                          found # <<>>)

\* The orchestrator of caller q asks for a tool that is not registered.
QueryExecuteUnregistered(q) ==
    \E name \in RequestedNames :
        /\ ~Registered(registry, name)
        /\ QueryExecuted(q, ExecuteTool(registry, last_sources, name, <<>>, <<>>, <<>>), FALSE)

\* generate_response returned: sources = tool_manager.get_last_sources()
QueryCollect(q) ==
    /\ qstatus[q] = "answering"
    /\ qstatus' = [qstatus EXCEPT ![q] = "collected"]
    /\ qgot' = [qgot EXCEPT ![q] = GetLastSources(registry, last_sources)]
    /\ qgot_writer' = [qgot_writer EXCEPT ![q] =
          LET nonempty == {i \in 1..Len(registry) : last_sources[registry[i].tool] # <<>>}
          IN IF nonempty = {} THEN <<>>
             ELSE writer[registry[CHOOSE i \in nonempty : \A j \in nonempty : i <= j].tool]]
    /\ UNCHANGED <<qlast, qexecuted, qprev, writer, qlost, registry_vars, orchestrator_vars, engine_vars>>

\* tool_manager.reset_sources(), then the answer and the sources are returned
QueryReset(q) ==
    /\ qstatus[q] = "collected"
    /\ last_sources' = ResetSources(registry, last_sources)
    /\ writer' = [t \in ToolObjs |->
                    IF ResetSources(registry, last_sources)[t] = <<>> THEN <<>> ELSE writer[t]]
    /\ qlost' = [p \in Callers |->
                    \/ qlost[p]
                    \/ /\ p # q
                       /\ qstatus[p] = "answering"
                       /\ \E t \in ToolObjs : writer[t] = <<p>> /\ writer'[t] = <<>>]
    /\ qstatus' = [qstatus EXCEPT ![q] = AfterQuery(q)]
    /\ qprev' = [qprev EXCEPT ![q] = IF qgot[q] # <<>> THEN "cited" ELSE "uncited"]
    /\ qgot' = [qgot EXCEPT ![q] = <<>>]
    /\ qgot_writer' = [qgot_writer EXCEPT ![q] = <<>>]
    /\ UNCHANGED <<qlast, qexecuted, registry, op, orchestrator_vars, engine_vars>>

\* generate_response raised: the query ends without collecting or clearing
QueryRaises(q) ==
    /\ qstatus[q] = "answering"
    /\ qstatus' = [qstatus EXCEPT ![q] = AfterQuery(q)]
    /\ qprev' = [qprev EXCEPT ![q] = "raised"]
    /\ UNCHANGED <<qgot, qgot_writer, qlast, qexecuted, writer, qlost,
                   registry_vars, orchestrator_vars, engine_vars>>

QueryNext ==
    \/ \E q \in Callers : QueryStart(q)
    \/ \E q \in Callers : QueryExecuteSearch(q)
    \/ \E q \in Callers : QueryExecuteOutline(q)
    \/ \E q \in Callers : QueryExecuteUnregistered(q)
    \/ \E q \in Callers : QueryCollect(q)
    \/ \E q \in Callers : QueryReset(q)
    \/ \E q \in Callers : QueryRaises(q)

\* The registry of the application: the search tool and the outline tool,
\* registered in either order.
ApplicationRegistry ==
    /\ \E first \in {SEARCH_TOOL, OUTLINE_TOOL}, second \in {SEARCH_TOOL, OUTLINE_TOOL} :
          /\ first # second
          /\ registry = RegisterTool(RegisterTool(<<>>, first).tools, second).tools
    /\ last_sources = [t \in ToolObjs |-> <<>>]
    /\ op = NoOp

\* The callers in `active` may issue queries.
QueryInit(active) ==
    /\ OrchestratorUnused
    /\ EngineUnused
    /\ ApplicationRegistry
    /\ qstatus = [q \in Callers |-> IF q \in active THEN "idle" ELSE "off"]
    /\ qgot = [q \in Callers |-> <<>>]
    /\ qgot_writer = [q \in Callers |-> <<>>]
    /\ qlast = [q \in Callers |-> <<>>]
    /\ qexecuted = [q \in Callers |-> 0]
    /\ qprev = [q \in Callers |-> "none"]
    /\ writer = [t \in ToolObjs |-> <<>>]
    /\ qlost = [q \in Callers |-> FALSE]

\* One caller: its queries run one after the other.
QuerySpec == QueryInit({1}) /\ [][QueryNext]_vars

\* Two callers share the registry: their queries interleave.
ConcQuerySpec == QueryInit(Callers) /\ [][QueryNext]_vars

----------------------------------------------------------------------------
\* The retrieval engine: course resolution and filtered, thresholded search.
\*
\* Distances are small numbers; the distance of the query to every chunk, and
\* the catalog title nearest to a reference with its distance, are part of
\* the store.

\* Largest distance.
MaxDistance == 2

\* The chunks of the content index.
IndexChunks ==
    <<[course_title |-> "A", lesson_number |-> <<0>>],
      [course_title |-> "B", lesson_number |-> <<>>]>>

\* Course references: an exact title, a title in another case, no title.
References == {"A", "a", "X"}

\* str.lower() of a reference or title.
Lower(s) ==
    CASE s = "A" -> "a"
      [] s = "B" -> "b"
      [] s = "X" -> "x"
      [] OTHER -> s

\* The stores: configuration and distances.
Stores ==
    [course_threshold : 0..MaxDistance,
     content_threshold : 0..MaxDistance,
     max_results : {1, 2},
     nearest_title : Titles,
     nearest_distance : 0..MaxDistance,
     content_distance : [1..Len(IndexChunks) -> 0..MaxDistance]]

\* The members of S in ascending order of d, ties in index order.
RECURSIVE SortAscending(_, _)
SortAscending(S, d) ==
    IF S = {} THEN <<>>
    ELSE LET m == CHOOSE i \in S :
                    \A j \in S : d[i] < d[j] \/ (d[i] = d[j] /\ i <= j)
         IN <<m>> \o SortAscending(S \ {m}, d)

\* The first n entries of a sequence.
Take(seq, n) == SubSeq(seq, 1, IF Len(seq) < n THEN Len(seq) ELSE n)

\* The chunks of a sequence whose distance is within the threshold, in order.
RECURSIVE KeepWithin(_, _, _)
KeepWithin(seq, d, threshold) ==
    IF seq = <<>> THEN <<>>
    ELSE (IF d[Head(seq)] <= threshold THEN <<Head(seq)>> ELSE <<>>)
         \o KeepWithin(Tail(seq), d, threshold)

\* resolve_course without the exact-match rule.
ResolveCourse_NearestOnly(st, reference) ==
    IF st.nearest_distance > st.course_threshold
    THEN <<>>
    ELSE <<st.nearest_title>>

\* resolve_course that accepts the nearest title whatever its distance.
ResolveCourse_NoThreshold(st, reference) ==
    LET exact == {t \in Titles : Lower(t) = Lower(reference)} IN
    IF exact # {} THEN <<CHOOSE t \in exact : TRUE>>
    ELSE <<st.nearest_title>>

\* resolve_course(reference): the canonical title, or none.
ResolveCourse(st, reference) ==
    LET exact == {t \in Titles : Lower(t) = Lower(reference)} IN
    IF exact # {} THEN <<CHOOSE t \in exact : TRUE>>
    ELSE IF st.nearest_distance > st.course_threshold
         THEN <<>>
         ELSE <<st.nearest_title>>

\* The chunks a search may return: those of the resolved course and of the
\* requested lesson, when given.
Candidates(resolved, lesson_number) ==
    {i \in 1..Len(IndexChunks) :
        /\ resolved # <<>> => IndexChunks[i].course_title = resolved[1]
        /\ lesson_number # <<>> => IndexChunks[i].lesson_number = lesson_number}

\* A SearchResultSet that carries the distances of all chunks.
ResultSet_AllDistances(st, hits) ==
    [documents |-> [k \in 1..Len(hits) |-> <<"doc", Str(hits[k])>>],
     metadata |-> [k \in 1..Len(hits) |-> IndexChunks[hits[k]]],
     distances |-> st.content_distance,
     error |-> <<>>]

\* The SearchResultSet of the chunks `hits`, in their order.
ResultSet(st, hits) ==
    [documents |-> [k \in 1..Len(hits) |-> <<"doc", Str(hits[k])>>],
     metadata |-> [k \in 1..Len(hits) |-> IndexChunks[hits[k]]],
     distances |-> [k \in 1..Len(hits) |-> st.content_distance[hits[k]]],
     error |-> <<>>]

\* search that keeps the nearest hits whatever their distance.
SearchRun_NoContentThreshold(st, course_name, lesson_number) ==
    LET resolved == IF course_name = <<>> THEN <<>> ELSE ResolveCourse(st, course_name[1]) IN
    IF course_name # <<>> /\ resolved = <<>>
    THEN [result |-> ErrorResults(<<"No course found matching '", course_name[1], "'">>),
          content_searched |-> FALSE]
    ELSE [result |-> ResultSet(st,
                        Take(SortAscending(Candidates(resolved, lesson_number),
                                           st.content_distance), st.max_results)),
          content_searched |-> TRUE]

\* search(query, course_reference?, lesson_number?): the SearchResultSet, and
\* whether the content index was searched.
SearchRun(st, course_name, lesson_number) ==
    LET resolved == IF course_name = <<>> THEN <<>> ELSE ResolveCourse(st, course_name[1]) IN
    IF course_name # <<>> /\ resolved = <<>>
    THEN [result |-> ErrorResults(<<"No course found matching '", course_name[1], "'">>),
          content_searched |-> FALSE]
    ELSE [result |-> ResultSet(st,
                        KeepWithin(Take(SortAscending(Candidates(resolved, lesson_number),
                                                      st.content_distance), st.max_results),
                                   st.content_distance, st.content_threshold)),
          content_searched |-> TRUE]

\* Course references passed to a search.
SearchReferences == {<<>>} \cup {<<r>> : r \in References}

\* resolve_course(reference)
EngineResolve ==
    /\ \E reference \in References :
          op' = [kind |-> "resolve", reference |-> reference,
                 result |-> ResolveCourse(store, reference)]
    /\ UNCHANGED <<registry, last_sources, store, orchestrator_vars, query_vars>>

\* search(query, course_reference, lesson_number)
EngineSearch ==
    /\ \E course_name \in SearchReferences, lesson_number \in LessonNumbers :
          LET r == SearchRun(store, course_name, lesson_number) IN
          op' = [kind |-> "search", course_name |-> course_name,
                 lesson_number |-> lesson_number,
                 result |-> r.result, content_searched |-> r.content_searched]
    /\ UNCHANGED <<registry, last_sources, store, orchestrator_vars, query_vars>>

\* The content search tool executed on this engine.
EngineToolSearch ==
    /\ \E course_name \in SearchReferences, lesson_number \in LessonNumbers :
          LET found == SearchRun(store, course_name, lesson_number).result
              r == ExecuteTool(registry, last_sources, "search_course_content",
                               course_name, lesson_number, found)
          IN /\ last_sources' = r.last_sources
             /\ op' = [kind |-> "execute", name |-> "search_course_content",
                       course_name |-> course_name, lesson_number |-> lesson_number,
                       found |-> found, result |-> r.result, executed |-> r.executed]
    /\ UNCHANGED <<registry, store, orchestrator_vars, query_vars>>

EngineNext ==
    \/ EngineResolve
    \/ EngineSearch
    \/ EngineToolSearch

\* An engine over some store, and a registry holding the content search tool.
EngineInit ==
    /\ OrchestratorUnused
    /\ QueriesUnused
    /\ store \in Stores
    /\ registry = RegisterTool(<<>>, SEARCH_TOOL).tools
    /\ last_sources = [t \in ToolObjs |-> <<>>]
    /\ op = NoOp

EngineSpec == EngineInit /\ [][EngineNext]_vars

----------------------------------------------------------------------------
\* One ToolManager on which tool objects are registered, also under names
\* that are taken, and which is asked for its definitions and for the tool
\* of a name.

\* manager.register_tool(tool), for any tool object.
RegisterInstance ==
    /\ \E tool \in Instances :
        LET r == RegisterTool(registry, tool)
            taken == ToolName(tool) # <<>> /\ Registered(registry, ToolName(tool)[1])
        IN /\ registry' = r.tools
           /\ op' = [kind |-> "register", tool |-> tool, raised |-> r.raised,
                     replaced |-> IF taken THEN <<Lookup(registry, ToolName(tool)[1])>> ELSE <<>>]
    /\ UNCHANGED <<last_sources, orchestrator_vars, engine_vars, query_vars>>

\* manager.get_tool_definitions()
ListDefinitions ==
    /\ op' = [kind |-> "definitions", result |-> GetToolDefinitions(registry)]
    /\ UNCHANGED <<registry, last_sources, orchestrator_vars, engine_vars, query_vars>>

\* The lookup of execute_tool: `tool_name not in self.tools`, self.tools[tool_name].
LookupByName ==
    /\ \E name \in RequestedNames :
        op' = [kind |-> "lookup", name |-> name,
               found |-> IF Registered(registry, name) THEN <<Lookup(registry, name)>> ELSE <<>>]
    /\ UNCHANGED <<registry, last_sources, orchestrator_vars, engine_vars, query_vars>>

RegistrationNext ==
    \/ RegisterInstance
    \/ ListDefinitions
    \/ LookupByName

RegistrationSpec == RegistryInit /\ [][RegistrationNext]_vars

----------------------------------------------------------------------------
Init ==
    /\ pc = "start"
    /\ path = "none"
    /\ tools \in {<<>>, ToolDefinitions}
    /\ tool_manager \in BOOLEAN
    /\ enable_sequential_tools \in BOOLEAN
    /\ base_messages = <<>>
    /\ messages = <<>>
    /\ initial_response = NoResponse
    /\ current_response = NoResponse
    /\ round_count = 0
    /\ outcome = NoOutcome
    /\ replies = <<>>
    /\ calls = <<>>
    /\ call_failed = <<>>
    /\ rounds = <<>>
    /\ faults = <<>>
    /\ RegistryUnused
    /\ QueriesUnused
    /\ EngineUnused

\* Variant of the loop head that starts a round without appending the
\* assistant turn of the reply.
SequentialLoopHead_NoAssistantTurn(response, rc, ms) ==
    IF LoopContinues(response, rc, tool_manager)
    THEN /\ round_count' = rc + 1
         /\ messages' = ms
         /\ pc' = "seq_tools"
         /\ outcome' = outcome
    ELSE /\ round_count' = rc
         /\ messages' = ms
         /\ pc' = "done"
         /\ outcome' = SequentialResult(response)

\* The head of the while loop of the sequential handler, evaluated on
\* `response` with the round counter rc and the turn list ms: either a new
\* round starts or the handler returns.
SequentialLoopHead(response, rc, ms) ==
    IF LoopContinues(response, rc, tool_manager)
    THEN /\ round_count' = rc + 1
         /\ messages' = Append(ms, AssistantTurn(response))
         /\ pc' = "seq_tools"
         /\ outcome' = outcome
    ELSE /\ round_count' = rc
         /\ messages' = ms
         /\ pc' = "done"
         /\ outcome' = SequentialResult(response)

\* Variant of the failing initial call that answers with the error text,
\* as the follow-up call of the sequential handler does.
InitialCallFails_ReturnsString ==
    /\ pc = "start"
    /\ Len(calls) < MaxCalls
    /\ base_messages' = <<[role |-> "user", content |-> UserQuery]>>
    /\ calls' = Append(calls, InitialParams(base_messages', tools))
    /\ call_failed' = Append(call_failed, TRUE)
    /\ outcome' = Return(<<"Anthropic API error: ", "APIConnectionError">>)
    /\ pc' = "done"
    /\ UNCHANGED <<registry_vars, query_vars, engine_vars, path, tools, tool_manager, enable_sequential_tools, messages,
                   initial_response, current_response, round_count, replies,
                   rounds, faults>>

\* generate_response: the initial model call raises.
InitialCallFails ==
    /\ pc = "start"
    /\ Len(calls) < MaxCalls
    /\ base_messages' = <<[role |-> "user", content |-> UserQuery]>>
    /\ calls' = Append(calls, InitialParams(base_messages', tools))
    /\ call_failed' = Append(call_failed, TRUE)
    /\ outcome' = Raise(<<"Anthropic API error: ", "APIConnectionError">>)
    /\ pc' = "done"
    /\ UNCHANGED <<registry_vars, query_vars, engine_vars, path, tools, tool_manager, enable_sequential_tools, messages,
                   initial_response, current_response, round_count, replies,
                   rounds, faults>>

\* generate_response: the initial model call returns `response`; the
\* handler runs up to its return or up to the first tool round.
InitialCallReplies ==
    /\ pc = "start"
    /\ Len(calls) < MaxCalls
    /\ \E response \in Responses(1) :
        /\ base_messages' = <<[role |-> "user", content |-> UserQuery]>>
        /\ calls' = Append(calls, InitialParams(base_messages', tools))
        /\ call_failed' = Append(call_failed, FALSE)
        /\ replies' = Append(replies, response)
        /\ initial_response' = response
        /\ IF response.stop_reason = "tool_use" /\ tool_manager
           THEN IF enable_sequential_tools
                THEN /\ path' = "sequential"
                     /\ current_response' = response
                     /\ SequentialLoopHead(response, 0, base_messages')
                ELSE /\ path' = "single"
                     /\ messages' = Append(base_messages', AssistantTurn(response))
                     /\ pc' = "single_tools"
                     /\ UNCHANGED <<current_response, round_count, outcome>>
           ELSE /\ path' = "direct"
                /\ outcome' = DirectResult(response)
                /\ pc' = "done"
                /\ UNCHANGED <<current_response, round_count, messages>>
    /\ UNCHANGED <<registry_vars, query_vars, engine_vars, tools, tool_manager, enable_sequential_tools, rounds, faults>>

\* Variant of the round of the sequential handler without the break on an
\* empty result list: the turn is appended and the next call prepared.
SeqExecuteTools_NoBreak ==
    /\ pc = "seq_tools"
    /\ ~RoundRaises(current_response)
    /\ \E raising \in SUBSET ToolIds(current_response) :
        LET tool_results == ExecuteToolsForRound(current_response, raising) IN
        /\ rounds' = Append(rounds, RoundRecord("sequential", Len(replies), current_response, raising))
        /\ messages' = Append(messages, [role |-> "user", content |-> tool_results])
        /\ pc' = "seq_call"
        /\ outcome' = outcome
    /\ UNCHANGED <<registry_vars, query_vars, engine_vars, path, tools, tool_manager, enable_sequential_tools, base_messages,
                   initial_response, current_response, round_count, replies,
                   calls, call_failed, faults>>

\* Sequential handler: _execute_tools_for_round returns; with no result the
\* loop is left and the handler returns.
SeqExecuteTools ==
    /\ pc = "seq_tools"
    /\ ~RoundRaises(current_response)
    /\ \E raising \in SUBSET ToolIds(current_response) :
        LET tool_results == ExecuteToolsForRound(current_response, raising) IN
        /\ rounds' = Append(rounds, RoundRecord("sequential", Len(replies), current_response, raising))
        /\ IF tool_results # <<>>
           THEN /\ messages' = Append(messages, ToolResultTurn(tool_results))
                /\ pc' = "seq_call"
                /\ outcome' = outcome
           ELSE /\ messages' = messages
                /\ pc' = "done"
                /\ outcome' = SequentialResult(current_response)
    /\ UNCHANGED <<registry_vars, query_vars, engine_vars, path, tools, tool_manager, enable_sequential_tools, base_messages,
                   initial_response, current_response, round_count, replies,
                   calls, call_failed, faults>>

\* Variant of the fault of the sequential handler in which the handler had
\* appended to the turn list of the request itself, not to a copy: the
\* fallback starts from the turns of the abandoned rounds.
SeqRoundRaises_NoCopy ==
    /\ pc = "seq_tools"
    /\ RoundRaises(current_response)
    /\ faults' = Append(faults, [handler |-> "sequential", calls |-> Len(calls)])
    /\ path' = "fallback"
    /\ messages' = Append(messages, AssistantTurn(initial_response))
    /\ pc' = "single_tools"
    /\ UNCHANGED <<registry_vars, query_vars, engine_vars, tools, tool_manager, enable_sequential_tools, base_messages,
                   initial_response, current_response, round_count, outcome,
                   replies, calls, call_failed, rounds>>

\* Sequential handler: _execute_tools_for_round raises; the handler re-raises
\* and generate_response enters _handle_tool_execution with the initial reply.
SeqRoundRaises ==
    /\ pc = "seq_tools"
    /\ RoundRaises(current_response)
    /\ faults' = Append(faults, [handler |-> "sequential", calls |-> Len(calls)])
    /\ path' = "fallback"
    /\ messages' = Append(base_messages, AssistantTurn(initial_response))
    /\ pc' = "single_tools"
    /\ UNCHANGED <<registry_vars, query_vars, engine_vars, tools, tool_manager, enable_sequential_tools, base_messages,
                   initial_response, current_response, round_count, outcome,
                   replies, calls, call_failed, rounds>>

\* Variant of the failing follow-up call that raises out of the sequential
\* handler, so that generate_response enters the fallback.
SeqCallFails_FallsBack ==
    /\ pc = "seq_call"
    /\ Len(calls) < MaxCalls
    /\ calls' = Append(calls, NextParams(messages, tools))
    /\ call_failed' = Append(call_failed, TRUE)
    /\ faults' = Append(faults, [handler |-> "sequential", calls |-> Len(calls')])
    /\ path' = "fallback"
    /\ messages' = Append(base_messages, AssistantTurn(initial_response))
    /\ pc' = "single_tools"
    /\ UNCHANGED <<registry_vars, query_vars, engine_vars, tools, tool_manager, enable_sequential_tools, base_messages,
                   initial_response, current_response, round_count, outcome,
                   replies, rounds>>

\* Sequential handler: the follow-up model call raises.
SeqCallFails ==
    /\ pc = "seq_call"
    /\ Len(calls) < MaxCalls
    /\ calls' = Append(calls, NextParams(messages, tools))
    /\ call_failed' = Append(call_failed, TRUE)
    /\ outcome' = Return(<<"API error during sequential execution: ", "APIConnectionError">>)
    /\ pc' = "done"
    /\ UNCHANGED <<registry_vars, query_vars, engine_vars, path, tools, tool_manager, enable_sequential_tools, base_messages,
                   messages, initial_response, current_response, round_count,
                   replies, rounds, faults>>

\* Sequential handler: the follow-up model call returns; the loop condition
\* is evaluated on the new reply.
SeqCallReplies ==
    /\ pc = "seq_call"
    /\ Len(calls) < MaxCalls
    /\ \E response \in Responses(Len(replies) + 1) :
        /\ calls' = Append(calls, NextParams(messages, tools))
        /\ call_failed' = Append(call_failed, FALSE)
        /\ replies' = Append(replies, response)
        /\ current_response' = response
        /\ SequentialLoopHead(response, round_count, messages)
    /\ UNCHANGED <<registry_vars, query_vars, engine_vars, path, tools, tool_manager, enable_sequential_tools, base_messages,
                   initial_response, rounds, faults>>

\* Single-round handler: _execute_tools_for_round returns.
SingleExecuteTools ==
    /\ pc = "single_tools"
    /\ ~RoundRaises(initial_response)
    /\ \E raising \in SUBSET ToolIds(initial_response) :
        LET tool_results == ExecuteToolsForRound(initial_response, raising) IN
        /\ rounds' = Append(rounds, RoundRecord(path, 1, initial_response, raising))
        /\ messages' = IF tool_results # <<>>
                       THEN Append(messages, ToolResultTurn(tool_results))
                       ELSE messages
    /\ pc' = "single_call"
    /\ UNCHANGED <<registry_vars, query_vars, engine_vars, path, tools, tool_manager, enable_sequential_tools, base_messages,
                   initial_response, current_response, round_count, outcome,
                   replies, calls, call_failed, faults>>

\* Single-round handler: _execute_tools_for_round raises; nothing catches it.
SingleRoundRaises ==
    /\ pc = "single_tools"
    /\ RoundRaises(initial_response)
    /\ faults' = Append(faults, [handler |-> path, calls |-> Len(calls)])
    /\ outcome' = Raise(<<"TypeError: 'NoneType' object is not iterable">>)
    /\ pc' = "done"
    /\ UNCHANGED <<registry_vars, query_vars, engine_vars, path, tools, tool_manager, enable_sequential_tools, base_messages,
                   messages, initial_response, current_response, round_count,
                   replies, calls, call_failed, rounds>>

\* Single-round handler: the final model call raises.
SingleCallFails ==
    /\ pc = "single_call"
    /\ Len(calls) < MaxCalls
    /\ calls' = Append(calls, FinalParams(messages))
    /\ call_failed' = Append(call_failed, TRUE)
    /\ outcome' = Raise(<<"Anthropic API error in tool execution: ", "APIConnectionError">>)
    /\ pc' = "done"
    /\ UNCHANGED <<registry_vars, query_vars, engine_vars, path, tools, tool_manager, enable_sequential_tools, base_messages,
                   messages, initial_response, current_response, round_count,
                   replies, rounds, faults>>

\* Single-round handler: the final model call returns.
SingleCallReplies ==
    /\ pc = "single_call"
    /\ Len(calls) < MaxCalls
    /\ \E response \in Responses(Len(replies) + 1) :
        /\ calls' = Append(calls, FinalParams(messages))
        /\ call_failed' = Append(call_failed, FALSE)
        /\ replies' = Append(replies, response)
        /\ outcome' = SingleResult(response)
    /\ pc' = "done"
    /\ UNCHANGED <<registry_vars, query_vars, engine_vars, path, tools, tool_manager, enable_sequential_tools, base_messages,
                   messages, initial_response, current_response, round_count,
                   rounds, faults>>

Next ==
    \/ InitialCallFails
    \/ InitialCallReplies
    \/ SeqExecuteTools
    \/ SeqRoundRaises
    \/ SeqCallFails
    \/ SeqCallReplies
    \/ SingleExecuteTools
    \/ SingleRoundRaises
    \/ SingleCallFails
    \/ SingleCallReplies

Spec == Init /\ [][Next]_vars

\* Every model call and every tool call returns or fails, so the call chain
\* of a query always takes its next step.
FairSpec == Spec /\ WF_vars(Next)

----------------------------------------------------------------------------
TypeOK ==
    /\ pc \in {"start", "seq_tools", "seq_call", "single_tools", "single_call", "done"}
    /\ path \in {"none", "direct", "sequential", "single", "fallback"}
    /\ round_count \in 0..MAX_ROUNDS
    /\ outcome.kind \in {"none", "return", "raise"}
    /\ Len(calls) = Len(call_failed)

\* The cap of the model-call guards is never what stops a query.
CapNeverBinds == Len(calls) < MaxCalls

----------------------------------------------------------------------------
\* Properties of the orchestrator

Done == pc = "done"

\* A reply requests tools: it signals tool_use and carries a tool call.
RequestsTools(response) ==
    /\ response.stop_reason = "tool_use"
    /\ ~response.content_none
    /\ \E i \in 1..Len(response.content) : response.content[i].type = "tool_use"

\* The first block of a reply is a text block.
TextFirst(response) ==
    /\ ~response.content_none
    /\ Len(response.content) > 0
    /\ "text" \in DOMAIN response.content[1]

SomeCallFailed == \E i \in 1..Len(call_failed) : call_failed[i]

LastCallReplied == Len(calls) > 0 /\ ~call_failed[Len(calls)]

\* C1: a query issues at most 3 model calls (1 initial + 2 rounds) and
\* completes at most 2 tool-execution rounds, on every path: direct reply,
\* sequential loop, sequential loop followed by the single-round fallback.
C1_AtMostThreeCallsTwoRounds ==
    /\ Len(calls) <= 3
    /\ Len(rounds) <= 2

\* C1 witness: the sequential path ran round 1, raised in round 2 and the
\* fallback ran its round and its model call: 3 calls, 2 completed rounds.
C1_Witness ==
    /\ Done
    /\ path = "fallback"
    /\ Len(calls) = 3
    /\ Len(rounds) = 2
    /\ rounds[1].path = "sequential"
    /\ rounds[2].path = "fallback"

\* C2: when the initial reply and the reply after round 1 both request
\* tools and a 3rd reply arrives, that reply is final: the answer is its
\* text (a placeholder when it has none) even if it requests a tool again,
\* exactly 3 model calls and 2 rounds happened, and every follow-up call
\* advertised tools (no tool-less closing call).
C2_ThirdReplyIsFinal ==
    (/\ Done
     /\ enable_sequential_tools /\ tool_manager
     /\ Len(replies) >= 3
     /\ RequestsTools(replies[1])
     /\ RequestsTools(replies[2]))
    => /\ Len(replies) = 3
       /\ Len(calls) = 3
       /\ Len(rounds) = 2
       /\ outcome.kind = "return"
       /\ IF TextFirst(replies[3])
          THEN outcome.value = <<"text", 3, 1>>
          ELSE outcome.value \in {<<"No response generated from Claude API">>,
                                  <<"Unexpected response format from Claude API">>}
       /\ \A i \in 2..Len(calls) : "tools" \in DOMAIN calls[i]

\* C2 witness: the 3rd reply still requests a tool and its text is returned.
C2_Witness ==
    /\ Done
    /\ path = "sequential"
    /\ Len(replies) = 3
    /\ RequestsTools(replies[1])
    /\ RequestsTools(replies[2])
    /\ RequestsTools(replies[3])
    /\ TextFirst(replies[3])
    /\ outcome = Return(<<"text", 3, 1>>)

\* C3: when the initial reply requests a tool and the reply after round 1
\* does not, exactly 2 model calls and exactly 1 tool round occur and the
\* answer is the 2nd reply's text (a placeholder when it has none).
C3_SingleRoundCompletion ==
    (/\ Done
     /\ enable_sequential_tools /\ tool_manager
     /\ Len(replies) >= 2
     /\ RequestsTools(replies[1])
     /\ replies[2].stop_reason # "tool_use")
    => /\ Len(calls) = 2
       /\ Len(replies) = 2
       /\ Len(rounds) = 1
       /\ outcome.kind = "return"
       /\ IF TextFirst(replies[2])
          THEN outcome.value = <<"text", 2, 1>>
          ELSE outcome.value \in {<<"No response generated from Claude API">>,
                                  <<"Unexpected response format from Claude API">>}

\* C3 witness: the 2nd reply ends the turn with a text although it also
\* carries a tool call; its text is the answer after 2 calls and 1 round.
C3_Witness ==
    /\ Done
    /\ path = "sequential"
    /\ Len(replies) = 2
    /\ RequestsTools(replies[1])
    /\ replies[2].stop_reason = "end_turn"
    /\ Len(replies[2].content) = 2
    /\ replies[2].content[2].type = "tool_use"
    /\ outcome = Return(<<"text", 2, 1>>)
    /\ Len(rounds) = 1

\* The model call that follows round j carries the round's results as its
\* last turn; right after the round that call is the next step.
RoundResultsSent(j) ==
    LET turn == [role |-> "user", content |-> rounds[j].results] IN
    \/ /\ j = Len(rounds)
       /\ pc \in {"seq_call", "single_call"}
       /\ messages[Len(messages)] = turn
    \/ \E c \in 1..Len(calls) :
          /\ Len(calls[c].messages) > 1
          /\ calls[c].messages[Len(calls[c].messages)] = turn

\* C4: in every round every tool call of the reply is dispatched, in order,
\* and yields one result with its call id; a call that raised yields
\* is_error = true with content "Tool execution error: <message>", a call
\* that returned yields no error flag; and the round's results go to the
\* next model call.
C4_ToolErrorIsolated ==
    \A j \in 1..Len(rounds) :
        LET rd == rounds[j]
            tb == SelectSeq(replies[rd.reply].content, LAMBDA b : b.type = "tool_use")
        IN /\ Len(rd.dispatched) = Len(tb)
           /\ Len(rd.results) = Len(tb)
           /\ \A i \in 1..Len(tb) :
                /\ rd.dispatched[i] = tb[i].id
                /\ rd.results[i].tool_use_id = tb[i].id
                /\ IF tb[i].id \in rd.raised
                   THEN /\ "is_error" \in DOMAIN rd.results[i]
                        /\ rd.results[i].is_error
                        /\ rd.results[i].content = <<"Tool execution error: ", <<"exc", tb[i].id>>>>
                   ELSE /\ "is_error" \notin DOMAIN rd.results[i]
                        /\ rd.results[i].content = <<"result", tb[i].id>>
           /\ Len(tb) > 0 => RoundResultsSent(j)

\* C4 witness: the first of two tool calls of round 1 raised, the second
\* was still executed, and the query went on to a second model call that
\* produced the answer.
C4_Witness ==
    /\ Done
    /\ path = "sequential"
    /\ Len(rounds) >= 1
    /\ Len(rounds[1].dispatched) = 2
    /\ rounds[1].raised = {rounds[1].dispatched[1]}
    /\ "is_error" \in DOMAIN rounds[1].results[1]
    /\ "is_error" \notin DOMAIN rounds[1].results[2]
    /\ Len(calls) = 2
    /\ outcome = Return(<<"text", 2, 1>>)

\* The sequential handler raised and generate_response fell back to the
\* single-round handler.
FallbackTaken == Len(faults) > 0 /\ faults[1].handler = "sequential"

\* C5: once the sequential handler has raised, the fallback completes
\* exactly one tool round on the initial reply, issues exactly one more
\* model call, without tools, and (when that call replies) returns its text
\* or a placeholder.
C5_FallbackAnswersQuery ==
    (Done /\ FallbackTaken)
    => /\ Cardinality({j \in 1..Len(rounds) : rounds[j].path = "fallback"}) = 1
       /\ \A j \in 1..Len(rounds) : rounds[j].path = "fallback" => rounds[j].reply = 1
       /\ Len(calls) = faults[1].calls + 1
       /\ "tools" \notin DOMAIN calls[Len(calls)]
       /\ LastCallReplied => outcome.kind = "return"

\* C6: a query in which a model call failed ends with a propagated error,
\* never with an answer string.
C6_ServiceFailurePropagates ==
    (Done /\ SomeCallFailed) => outcome.kind = "raise"

FinalReply == replies[Len(replies)]

\* C8: in the sequential handler and in the single-round handler an empty
\* or text-less final reply never raises; the answer is the handler's
\* placeholder for that case.
C8_LoopReplyDegrades ==
    /\ (Done /\ path = "sequential" /\ LastCallReplied /\ ~TextFirst(FinalReply))
       => outcome = IF FinalReply.content_none \/ Len(FinalReply.content) = 0
                    THEN Return(<<"No response generated from Claude API">>)
                    ELSE Return(<<"Unexpected response format from Claude API">>)
    /\ (/\ Done /\ path \in {"single", "fallback"} /\ LastCallReplied
        /\ Len(calls) >= 2 /\ "tools" \notin DOMAIN calls[Len(calls)]
        /\ ~TextFirst(FinalReply))
       => outcome = IF FinalReply.content_none \/ Len(FinalReply.content) = 0
                    THEN Return(<<"No response generated after tool execution">>)
                    ELSE Return(<<"Unexpected response format after tool execution">>)

\* C8 witness: after two rounds the 3rd reply signals tool_use with no
\* content at all; the answer is the sequential placeholder.
C8_Witness ==
    /\ Done
    /\ path = "sequential"
    /\ round_count = 2
    /\ Len(replies) = 3
    /\ replies[3].content_none
    /\ replies[3].stop_reason = "tool_use"
    /\ outcome = Return(<<"No response generated from Claude API">>)

\* The first reply is empty, or it is answered directly and its first
\* block has no text.
FirstReplyUnusable ==
    /\ Len(replies) >= 1
    /\ \/ replies[1].content_none
       \/ Len(replies[1].content) = 0
       \/ /\ ~(replies[1].stop_reason = "tool_use" /\ tool_manager)
          /\ ~TextFirst(replies[1])

C10_QueryTerminates == <>(Done /\ outcome.kind \in {"return", "raise"})

\* C10 witness: the model requested tools in all three replies and the
\* query still finished.
C10_Witness ==
    /\ Done
    /\ Len(replies) = 3
    /\ \A k \in 1..3 : RequestsTools(replies[k])
    /\ outcome.kind = "return"

----------------------------------------------------------------------------
\* Claims about the tool registry

\* The lists of the registered tools are all empty.
AllSourcesEmpty == \A i \in 1..Len(registry) : last_sources[registry[i].tool] = <<>>

\* C15: asking the registry to execute a name that is not registered does
\* not raise: the call returns exactly "Tool '<name>' not found", runs no
\* tool and leaves every tool's citation list as it was.
C15_UnregisteredNameReported ==
    [][(op'.kind = "execute" /\ ~Registered(registry, op'.name)) =>
          /\ op'.result = <<"Tool '", op'.name, "' not found">>
          /\ op'.executed = <<>>
          /\ last_sources' = last_sources
          /\ registry' = registry]_vars

C15_Witness ==
    /\ op.kind = "execute"
    /\ ~Registered(registry, op.name)
    /\ op.result = <<"Tool '", op.name, "' not found">>
    /\ \E t \in ToolObjs : last_sources[t] # <<>>

\* C17: collecting the citations scans the tools in registration order and
\* returns the list of the first tool whose list is not empty; it returns
\* the empty list exactly when every list is empty; it changes no list.
C17_CollectFirstNonEmpty ==
    [][(op'.kind = "get_last_sources") =>
          /\ last_sources' = last_sources
          /\ registry' = registry
          /\ (op'.result = <<>>) <=> AllSourcesEmpty
          /\ \A i \in 1..Len(registry) :
                (/\ last_sources[registry[i].tool] # <<>>
                 /\ \A j \in 1..(i - 1) : last_sources[registry[j].tool] = <<>>)
                => op'.result = last_sources[registry[i].tool]]_vars

C17_Witness ==
    /\ op.kind = "get_last_sources"
    /\ Len(registry) = 2
    /\ registry[1].tool = OUTLINE_TOOL
    /\ last_sources[SEARCH_TOOL] # <<>>
    /\ last_sources[OUTLINE_TOOL] # <<>>
    /\ op.result = last_sources[OUTLINE_TOOL]

\* C18: clearing the citations empties the list of every registered tool
\* and changes neither the registered tools nor anything a second clearing
\* would change; from then on collecting returns the empty list until some
\* tool executes.
C18_ClearEmptiesEveryList ==
    [][/\ (op'.kind = "reset_sources") =>
            /\ AllSourcesEmpty'
            /\ registry' = registry
            /\ GetLastSources(registry', last_sources') = <<>>
            /\ ResetSources(registry', last_sources') = last_sources'
       /\ (AllSourcesEmpty /\ op'.kind # "execute") =>
            /\ AllSourcesEmpty'
            /\ (op'.kind = "get_last_sources" => op'.result = <<>>)]_vars

C18_Witness ==
    /\ op.kind = "reset_sources"
    /\ op.cleared = {SEARCH_TOOL, OUTLINE_TOOL}
    /\ Len(registry) = 2
    /\ AllSourcesEmpty

\* C19: registering a tool whose definition has no name raises and leaves
\* the registry as it was; registering a named tool does not raise and
\* makes the tool reachable under exactly its name, the other names
\* staying as they were.
C19_RegisterNeedsName ==
    [][(op'.kind = "register") =>
          IF ToolName(op'.tool) = <<>>
          THEN op'.raised /\ registry' = registry
          ELSE /\ ~op'.raised
               /\ Registered(registry', ToolName(op'.tool)[1])
               /\ Lookup(registry', ToolName(op'.tool)[1]) = op'.tool
               /\ \A i \in 1..Len(registry') :
                     registry'[i].tool = op'.tool
                     => registry'[i].name = ToolName(op'.tool)[1]
               /\ \A n \in RequestedNames \ {ToolName(op'.tool)[1]} :
                     /\ Registered(registry', n) <=> Registered(registry, n)
                     /\ Registered(registry, n) => Lookup(registry', n) = Lookup(registry, n)]_vars

C19_Witness ==
    /\ op.kind = "register"
    /\ op.tool = NAMELESS_TOOL
    /\ op.raised
    /\ Registered(registry, "search_course_content")
    /\ Lookup(registry, "search_course_content") = SEARCH_TOOL
    /\ \A i \in 1..Len(registry) : registry[i].tool # NAMELESS_TOOL

\* The last registry operation ran the content search tool.
SearchRan == op.kind = "execute" /\ op.executed = <<SEARCH_TOOL>>

\* The last registry operation ran the course outline tool.
OutlineRan == op.kind = "execute" /\ op.executed = <<OUTLINE_TOOL>>

\* C13: after every execution of the content search tool its citation list
\* holds exactly one citation per result of that execution, so it is empty
\* after an execution that returned an error or no content.
C13_SearchReplacesCitations ==
    SearchRan =>
        /\ Len(last_sources[SEARCH_TOOL]) = Len(op.found.documents)
        /\ \A i \in 1..Len(op.found.documents) :
              last_sources[SEARCH_TOOL][i] = ResultSource(op.found.metadata[i])

\* The characters of the pieces that occur in failure strings.
Chars(piece) ==
    CASE piece = "Test error message" ->
           <<"T","e","s","t"," ","e","r","r","o","r"," ","m","e","s","s","a","g","e">>
      [] piece = "No course found matching '" ->
           <<"N","o"," ","c","o","u","r","s","e"," ","f","o","u","n","d"," ",
             "m","a","t","c","h","i","n","g"," ","'">>
      [] OTHER -> <<piece>>

\* The characters of a string given by its pieces.
RECURSIVE Flatten(_)
Flatten(pieces) ==
    IF pieces = <<>> THEN <<>> ELSE Chars(Head(pieces)) \o Flatten(Tail(pieces))

\* `pattern in text`
Contains(text, pattern) ==
    \E i \in 1..(Len(text) - Len(pattern) + 1) :
        SubSeq(text, i, i + Len(pattern) - 1) = pattern

\* The last registry operation ran a tool and the store reported a failure:
\* a retrieval error or a course reference it could not resolve.
ToolFailed ==
    \/ SearchRan /\ op.found.error # <<>>
    \/ OutlineRan /\ op.found = <<>>

\* C16 as stated: every failure of a registered tool surfaces as a returned
\* string that contains "error".
C16_FailureContainsError ==
    ToolFailed => Contains(Flatten(op.result), <<"e", "r", "r", "o", "r">>)

\* C16: executing a registered tool with valid arguments returns a
\* non-empty string and never escapes the call; a failure of the content
\* search surfaces as the store's error string verbatim and an unresolvable
\* course of the outline tool as "No course found matching '<reference>'".
C16_FailureIsReturnedString ==
    /\ (SearchRan \/ OutlineRan) => op.result \in Seq(STRING) /\ op.result # <<>>
    /\ (SearchRan /\ op.found.error # <<>>) => op.result = op.found.error
    /\ (OutlineRan /\ op.found = <<>>) =>
          op.result = <<"No course found matching '", op.course_name[1], "'">>

C16_Witness ==
    /\ OutlineRan
    /\ op.found = <<>>
    /\ op.course_name = <<"X">>
    /\ op.result = <<"No course found matching '", "X", "'">>
    /\ ~Contains(Flatten(op.result), <<"e", "r", "r", "o", "r">>)

\* C20: the text of an empty search result that is not an error is
\* "No relevant content found", then " in course '<X>'" exactly when a
\* course was supplied, then " in lesson <N>" exactly when a lesson number
\* was supplied (0 included), then ".".
C20_NoContentNamesFilters ==
    (SearchRan /\ op.found.error = <<>> /\ IsEmpty(op.found)) =>
        op.result =
            <<"No relevant content found">>
            \o (IF op.course_name # <<>>
                THEN <<" in course '", op.course_name[1], "'">> ELSE <<>>)
            \o (IF op.lesson_number # <<>>
                THEN <<" in lesson ", Str(op.lesson_number[1])>> ELSE <<>>)
            \o <<".">>

----------------------------------------------------------------------------
\* Claims about the citations of a query

\* The caller's previous query completed: it collected and cleared.
PreviousCompleted(q) == qprev[q] \in {"cited", "uncited"}

\* C11: with two callers on one shared registry no query's citations are
\* overwritten or cleared by the other query before they are read, and the
\* citations a query collects were recorded by its own tool executions.
C11_CitationsScopedPerQuery ==
    \A q \in Callers :
        /\ ~qlost[q]
        /\ qstatus[q] = "collected" => qgot_writer[q] \in {<<>>, <<q>>}

\* C12: when the most recent tool execution of a query recorded citations,
\* the citations the query collects are those of that execution, whichever
\* tool ran before it.
C12_CollectsMostRecentExecution ==
    \A q \in Callers :
        (qstatus[q] = "collected" /\ qlast[q] # <<>> /\ qlast[q][1].wrote)
        => qgot[q] = last_sources[qlast[q][1].tool]

\* C14: a query collects the citations once, after the answer, and then
\* clears every tool's list; after a completed query every list is empty,
\* and a query that follows a completed query and executes no tool
\* collects no citations.
C14_CitationsClearedBetweenQueries ==
    /\ [](\A q \in Callers :
            /\ (qstatus[q] = "idle" /\ PreviousCompleted(q)) => AllSourcesEmpty
            /\ (qstatus[q] = "collected" /\ PreviousCompleted(q) /\ qexecuted[q] = 0)
               => qgot[q] = <<>>)
    /\ [][\A q \in Callers :
            /\ (qstatus'[q] = "collected" /\ qstatus[q] # "collected")
               => (qstatus[q] = "answering" /\ last_sources' = last_sources)
            /\ (qstatus[q] = "collected" /\ qstatus'[q] # "collected")
               => (AllSourcesEmpty' /\ PreviousCompleted(q)')]_vars

C14_Witness ==
    /\ qstatus[1] = "collected"
    /\ qprev[1] = "cited"
    /\ qexecuted[1] = 0
    /\ qgot[1] = <<>>
    /\ AllSourcesEmpty

----------------------------------------------------------------------------
\* Claims about what the tools return and record

\* The last registry operation was a content search that returned hits.
SearchSucceeded == SearchRan /\ op.found.error = <<>> /\ ~IsEmpty(op.found)

\* C21: a successful content search records exactly one citation per
\* returned result, in result order; the text is the course title, followed
\* by " - Lesson <n>" when the result has a lesson number; the url is the
\* lesson link when the result has a lesson number and the course link
\* otherwise, and none when that link is not known.
C21_OneCitationPerResult ==
    SearchSucceeded =>
        /\ Len(last_sources[SEARCH_TOOL]) = Len(op.found.documents)
        /\ \A i \in 1..Len(op.found.documents) :
              LET meta == op.found.metadata[i]
                  cited == last_sources[SEARCH_TOOL][i]
              IN IF meta.lesson_number # <<>>
                 THEN /\ cited.text = <<meta.course_title, " - Lesson ",
                                        Str(meta.lesson_number[1])>>
                      /\ cited.url = LessonLink(meta.course_title, meta.lesson_number[1])
                 ELSE /\ cited.text = <<meta.course_title>>
                      /\ cited.url = CourseLink(meta.course_title)

C21_Witness ==
    /\ SearchSucceeded
    /\ Len(op.found.documents) = 2
    /\ op.found.metadata[1] = [course_title |-> "B", lesson_number |-> <<>>]
    /\ op.found.metadata[2] = [course_title |-> "A", lesson_number |-> <<0>>]
    /\ last_sources[SEARCH_TOOL] =
          <<[text |-> <<"B">>, url |-> <<>>],
            [text |-> <<"A", " - Lesson ", "0">>, url |-> <<"https://a/0">>]>>

\* C22: when the result of the content search carries an error the tool
\* returns the error string verbatim, also when the result has no
\* documents: the "No relevant content found" text is never returned for
\* an error result.
C22_ErrorBeforeEmpty ==
    (SearchRan /\ op.found.error # <<>>) =>
        /\ op.result = op.found.error
        /\ Head(op.result) # "No relevant content found"

C22_Witness ==
    /\ SearchRan
    /\ op.found.error = <<"Test error message">>
    /\ IsEmpty(op.found)
    /\ op.course_name = <<"A">>
    /\ op.lesson_number = <<1>>
    /\ op.result = <<"Test error message">>

\* C23: the outline tool returns "No course found matching '<reference>'"
\* when the lookup finds no outline; otherwise its citation list is
\* afterwards exactly one citation, "<title> - Course Outline" with the
\* course link of the outline, whatever the list held before.
C23_OutlineRecordsOneCitation ==
    OutlineRan =>
        IF op.found = <<>>
        THEN op.result = <<"No course found matching '", op.course_name[1], "'">>
        ELSE last_sources[OUTLINE_TOOL] =
                <<[text |-> <<op.found[1].course_title, " - Course Outline">>,
                   url |-> op.found[1].course_link]>>

C23_Witness ==
    /\ OutlineRan
    /\ op.course_name = <<"X">>
    /\ op.found # <<>>
    /\ op.found[1].course_title = "B"
    /\ last_sources[OUTLINE_TOOL] = <<[text |-> <<"B", " - Course Outline">>, url |-> <<>>]>>

----------------------------------------------------------------------------
\* Claims about the retrieval engine

\* The last operation was a search of the engine.
EngineSearched == op.kind = "search"

\* The reference equals a catalog title when case is ignored.
ExactTitle(reference) == \E t \in Titles : Lower(t) = Lower(reference)

\* The catalog title nearest to the reference is farther than the
\* course-name threshold.
NearestTooFar == store.nearest_distance > store.course_threshold

\* C24: every SearchResultSet the engine returns has documents, metadata
\* and distances of equal length; when its error is set all three are
\* empty, so an error result and an empty result without error differ in
\* the error alone.
C24_ResultSetWellFormed ==
    EngineSearched =>
        /\ Len(op.result.documents) = Len(op.result.metadata)
        /\ Len(op.result.metadata) = Len(op.result.distances)
        /\ op.result.error # <<>> =>
              /\ Len(op.result.documents) = 0
              /\ Len(op.result.metadata) = 0
              /\ Len(op.result.distances) = 0
        /\ op.result.error \in Seq(STRING)

C24_Witness ==
    /\ EngineSearched
    /\ op.result.error = <<>>
    /\ Len(op.result.documents) = 1
    /\ Len(op.result.distances) = 1
    /\ Cardinality(Candidates(<<>>, op.lesson_number)) = 2
    /\ op.course_name = <<>>

\* C25: resolving a reference that equals a catalog title when case is
\* ignored yields that title, whatever the course-name threshold and the
\* distances are.
C25_ExactTitleResolves ==
    (op.kind = "resolve" /\ ExactTitle(op.reference)) =>
        /\ op.result # <<>>
        /\ Lower(op.result[1]) = Lower(op.reference)

C25_Witness ==
    /\ op.kind = "resolve"
    /\ op.reference = "a"
    /\ op.result = <<"A">>
    /\ store.nearest_title = "B"
    /\ NearestTooFar

\* C26 as stated: resolving a reference whose nearest catalog title is
\* farther than the course-name threshold yields none, and a search given
\* such a reference returns the error "No course found matching
\* '<reference>'" with no documents, without searching the content index.
C26_TooFarIsNoCourse ==
    /\ (op.kind = "resolve" /\ NearestTooFar) => op.result = <<>>
    /\ (EngineSearched /\ op.course_name # <<>> /\ NearestTooFar) =>
          /\ op.result.error = <<"No course found matching '", op.course_name[1], "'">>
          /\ op.result.documents = <<>>
          /\ ~op.content_searched

\* C26: the same for a reference that equals no catalog title when case is
\* ignored; a reference that equals one resolves whatever the distance.
C26_TooFarAndNotExactIsNoCourse ==
    /\ (op.kind = "resolve" /\ NearestTooFar /\ ~ExactTitle(op.reference)) =>
          op.result = <<>>
    /\ (EngineSearched /\ op.course_name # <<>> /\ NearestTooFar
        /\ ~ExactTitle(op.course_name[1])) =>
          /\ op.result.error = <<"No course found matching '", op.course_name[1], "'">>
          /\ op.result.documents = <<>>
          /\ ~op.content_searched

C26_Witness ==
    /\ EngineSearched
    /\ op.course_name = <<"X">>
    /\ NearestTooFar
    /\ op.result.error = <<"No course found matching '", "X", "'">>
    /\ \E i \in 1..Len(IndexChunks) : store.content_distance[i] <= store.content_threshold

\* C27: every hit of a returned SearchResultSet is within the content
\* threshold, is of the resolved course and of the requested lesson when
\* these were given; there are at most max_results hits, in ascending order
\* of distance; the course-name threshold plays no part in which hits pass.
C27_HitsFilteredAndOrdered ==
    (EngineSearched /\ op.result.error = <<>>) =>
        /\ Len(op.result.documents) <= store.max_results
        /\ \A k \in 1..Len(op.result.documents) :
              /\ op.result.distances[k] <= store.content_threshold
              /\ op.course_name # <<>> =>
                    <<op.result.metadata[k].course_title>>
                        = ResolveCourse(store, op.course_name[1])
              /\ op.lesson_number # <<>> =>
                    op.result.metadata[k].lesson_number = op.lesson_number
              /\ k > 1 => op.result.distances[k - 1] <= op.result.distances[k]
        /\ \A st \in Stores :
              (/\ st.content_threshold = store.content_threshold
               /\ st.content_distance = store.content_distance
               /\ st.max_results = store.max_results
               /\ op.course_name = <<>>)
              => SearchRun(st, op.course_name, op.lesson_number).result = op.result

C27_Witness ==
    /\ EngineSearched
    /\ op.course_name = <<>>
    /\ Len(op.result.documents) = 2
    /\ op.result.metadata[1].course_title = "B"
    /\ op.result.distances[1] < op.result.distances[2]
    /\ op.result.distances[1] > store.course_threshold
    /\ op.result.distances[2] = store.content_threshold

\* No chunk of the requested course and lesson is within the content
\* threshold.
NoHitRemains(resolved, lesson_number) ==
    \A i \in Candidates(resolved, lesson_number) :
        store.content_distance[i] > store.content_threshold

\* C28: when a search has no course reference or one that resolves, and no
\* hit remains after the threshold, the engine returns an empty result
\* without error and the content search tool reports "No relevant content
\* found" and holds no citations.
C28_NoHitsIsEmptyNotError ==
    /\ (/\ EngineSearched
        /\ op.course_name # <<>> => ResolveCourse(store, op.course_name[1]) # <<>>
        /\ NoHitRemains(IF op.course_name = <<>> THEN <<>>
                        ELSE ResolveCourse(store, op.course_name[1]), op.lesson_number))
       => (op.result.error = <<>> /\ IsEmpty(op.result))
    /\ (/\ SearchRan
        /\ op.course_name # <<>> => ResolveCourse(store, op.course_name[1]) # <<>>
        /\ NoHitRemains(IF op.course_name = <<>> THEN <<>>
                        ELSE ResolveCourse(store, op.course_name[1]), op.lesson_number))
       => /\ op.found.error = <<>>
          /\ IsEmpty(op.found)
          /\ Head(op.result) = "No relevant content found"
          /\ last_sources[SEARCH_TOOL] = <<>>
-----------------------------------------------------------------------------
\* Claims about the rounds of the orchestrator

\* The query ran with sequential tool calling disabled and its initial reply
\* requested tools.
SingleRoundQuery ==
    /\ Done
    /\ ~enable_sequential_tools
    /\ tool_manager
    /\ replies # <<>>
    /\ RequestsTools(replies[1])

\* C29: with sequential tool calling disabled, a query whose initial reply
\* requests tools runs exactly one round of tool execution, on that reply,
\* and issues exactly one further model call, two in all; that second call
\* advertises no tools, and whatever it returns no round or call follows.
C29_SingleRoundTwoCalls ==
    SingleRoundQuery =>
        /\ path = "single"
        /\ Len(rounds) = 1
        /\ rounds[1].reply = 1
        /\ rounds[1].dispatched = Dispatched(replies[1])
        /\ Len(calls) = 2
        /\ "tools" \in DOMAIN calls[1] <=> tools # <<>>
        /\ "tools" \notin DOMAIN calls[2]
        /\ Len(replies) <= 2

\* A single-round query whose second reply requests tools again has ended
\* with that reply.
C29_Witness ==
    /\ SingleRoundQuery
    /\ tools # <<>>
    /\ Len(replies) = 2
    /\ RequestsTools(replies[2])
    /\ Len(calls) = 2

\* A step that executes one round of tool calls.
RoundStep == Len(rounds') = Len(rounds) + 1

\* A step that issues a model call after the initial one.
FollowUpCallStep == Len(calls') = Len(calls) + 1 /\ calls # <<>>

\* What a round step does: every tool_use block of the reply it runs on is
\* dispatched once, in order, with one result per block under the id of the
\* block; the results are appended to the conversation as one user turn;
\* no model call is issued by the step.
RoundComplete ==
    LET rd == rounds'[Len(rounds')]
        tb == SelectSeq(replies[rd.reply].content, LAMBDA b : b.type = "tool_use")
    IN /\ rd.dispatched = [i \in 1..Len(tb) |-> tb[i].id]
       /\ [i \in 1..Len(rd.results) |-> rd.results[i].tool_use_id] = rd.dispatched
       /\ calls' = calls
       /\ rd.reply = Len(calls) \/ rd.path = "fallback"
       /\ messages' = IF tb # <<>>
                      THEN Append(messages, [role |-> "user", content |-> rd.results])
                      ELSE messages

\* What a follow-up model call is issued on: a finished round, whose
\* results, when it has any, are the last turn of the call, after the
\* assistant turn of the reply that requested them.
CallAfterRound ==
    LET rd == rounds[Len(rounds)]
        ms == calls'[Len(calls')].messages
    IN /\ rounds # <<>>
       /\ rounds' = rounds
       /\ rd.results # <<>> =>
            /\ Len(ms) >= 3
            /\ ms[Len(ms)] = [role |-> "user", content |-> rd.results]
            /\ ms[Len(ms) - 1] = [role |-> "assistant", content |-> replies[rd.reply].content]
            /\ Len(rd.results) = Len(rd.dispatched)

\* C30: in every round each tool call of the model's turn is dispatched
\* exactly once, in the order requested, and yields exactly one result with
\* the id of its call; the results of the round are appended as one
\* combined turn; and the next model call is issued only after the round is
\* complete, on a conversation that ends with that turn.
C30_RoundDispatchesAllThenCalls ==
    [][(RoundStep => RoundComplete) /\ (FollowUpCallStep => CallAfterRound)]_vars

\* A second sequential round of two tool calls has been executed and the
\* third model call has been issued on its two results.
C30_Witness ==
    /\ path = "sequential"
    /\ Len(faults) = 0
    /\ Len(rounds) = 2
    /\ Len(rounds[2].dispatched) = 2
    /\ Len(rounds[2].results) = 2
    /\ Len(calls) = 3
    /\ calls[3].messages[Len(calls[3].messages)].content = rounds[2].results

-----------------------------------------------------------------------------
\* Claims about the parameters and the order of the model calls

\* The tool set a model call advertises; none when it has no `tools`.
AdvertisedTools(params) == IF "tools" \in DOMAIN params THEN params.tools ELSE <<>>

\* The numbers of the follow-up model calls issued by the sequential loop:
\* all but the initial one, up to the fault that started the fallback.
SequentialCalls ==
    IF FallbackTaken THEN 2..faults[1].calls
    ELSE IF path = "sequential" THEN 2..Len(calls)
    ELSE {}

\* The numbers of the final model calls of the single-round handler.
SingleRoundCalls == (2..Len(calls)) \ SequentialCalls

\* C31: every follow-up model call of the sequential loop advertises the
\* tool set of the initial call, with tool_choice auto; the final model call
\* of the single-round handler, entered directly or as the fallback,
\* advertises no tools and no tool choice.
C31_LoopKeepsToolsFinalCallDropsThem ==
    /\ \A c \in SequentialCalls :
          /\ AdvertisedTools(calls[c]) = AdvertisedTools(calls[1])
          /\ AdvertisedTools(calls[c]) = tools
          /\ "tool_choice" \in DOMAIN calls[c]
          /\ calls[c].tool_choice = "auto"
    /\ \A c \in SingleRoundCalls :
          /\ "tools" \notin DOMAIN calls[c]
          /\ "tool_choice" \notin DOMAIN calls[c]

\* The sequential loop issued its follow-up call with the tools, then a
\* fault in round 2 led to the fallback, which issued its final call.
C31_Witness ==
    /\ Done
    /\ tools # <<>>
    /\ FallbackTaken
    /\ SequentialCalls = {2}
    /\ SingleRoundCalls = {3}

\* A reply that signals tool_use and carries a block list without any tool
\* call.
EmptyRequest(response) ==
    /\ response.stop_reason = "tool_use"
    /\ ~response.content_none
    /\ \A i \in 1..Len(response.content) : response.content[i].type # "tool_use"

\* The numbers of the replies the sequential handler has looked at.
LoopReplies ==
    IF FallbackTaken THEN 1..faults[1].calls
    ELSE IF path = "sequential" THEN 1..Len(replies)
    ELSE {}

\* The text or placeholder the sequential handler returns for a reply.
ValidatedInLoop(response) ==
    IF response.content = <<>> THEN <<"No response generated from Claude API">>
    ELSE IF "text" \in DOMAIN response.content[1] THEN response.content[1].text
    ELSE <<"Unexpected response format from Claude API">>

\* C32: a reply of the sequential loop that signals tool_use without any
\* tool call ends the loop: it is the last reply of the query, no model
\* call follows it, no tool is dispatched for it, no result turn is
\* appended for it, and the query returns that reply's text or the
\* placeholder of its validation.
C32_EmptyRequestEndsLoop ==
    \A k \in LoopReplies :
        EmptyRequest(replies[k]) =>
            /\ k = Len(replies)
            /\ Len(calls) = k
            /\ pc \in {"seq_tools", "done"}
            /\ \A j \in 1..Len(rounds) :
                  rounds[j].reply = k => rounds[j].dispatched = <<>> /\ rounds[j].results = <<>>
            /\ \A i \in 2..Len(messages) : messages[i].role = "user" => messages[i].content # <<>>
            /\ Cardinality({i \in 1..Len(messages) : messages[i].role = "user"}) = k
            /\ Done => outcome = [kind |-> "return", value |-> ValidatedInLoop(replies[k])]

\* The second reply signalled tool_use with a text block only; round 2
\* executed nothing and the query returned that text.
C32_Witness ==
    /\ Done
    /\ path = "sequential"
    /\ Len(replies) = 2
    /\ EmptyRequest(replies[2])
    /\ Len(rounds) = 2
    /\ rounds[2].dispatched = <<>>
    /\ outcome = [kind |-> "return", value |-> <<"text", 2, 1>>]

\* The initial model call of the query has failed.
InitialCallFailed == calls # <<>> /\ call_failed[1]

\* C33: when the initial model call fails, generate_response raises the
\* wrapped error "Anthropic API error: <type>: <message>" and the query is
\* over: that call is the only one, no reply was received, no tool round
\* ran or faulted, and the step changed neither the registry nor any
\* tool's citation list.
C33_InitialFailureEndsQuery ==
    [][InitialCallFailed' =>
          /\ pc' = "done"
          /\ outcome' = [kind |-> "raise", value |-> <<"Anthropic API error: ", "APIConnectionError">>]
          /\ Len(calls') = 1
          /\ replies' = <<>>
          /\ rounds' = <<>>
          /\ faults' = <<>>
          /\ path' = "none"
          /\ last_sources' = last_sources
          /\ registry' = registry]_vars

\* The initial call of a query with tools and a tool manager failed.
C33_Witness ==
    /\ InitialCallFailed
    /\ Done
    /\ tools # <<>>
    /\ tool_manager
    /\ enable_sequential_tools

\* The call ids dispatched to the tool manager by round j.
DispatchedIds(j) == {rounds[j].dispatched[i] : i \in 1..Len(rounds[j].dispatched)}

\* C34: the tool calls of the reply received after the second round are
\* never dispatched: no round runs on the third reply, and unless the
\* fallback is taken a query that has issued its third model call has run
\* its two rounds, on the first and the second reply, and is over.
C34_ThirdReplyNeverDispatched ==
    /\ \A j \in 1..Len(rounds) :
          /\ rounds[j].reply <= 2
          /\ Len(replies) >= 3 => DispatchedIds(j) \cap ToolIds(replies[3]) = {}
    /\ (Len(calls) >= 3 /\ ~FallbackTaken) =>
          /\ pc = "done"
          /\ Len(rounds) = 2
          /\ rounds[1].reply = 1
          /\ rounds[2].reply = 2

\* The third reply requested two tool calls; the handler returned its
\* placeholder without running a third round.
C34_Witness ==
    /\ Done
    /\ path = "sequential"
    /\ Len(replies) = 3
    /\ Len(ToolBlocks(replies[3])) = 2
    /\ replies[3].stop_reason = "tool_use"
    /\ Len(rounds) = 2
    /\ outcome = Return(<<"Unexpected response format from Claude API">>)

\* C35: a follow-up model call of the sequential loop that fails ends the
\* query without the fallback: it is the last model call, the rounds run
\* before it are the only ones and each ran on its own reply, so no tool
\* call is executed again.
C35_LoopCallFailureEndsQuery ==
    \A c \in SequentialCalls :
        call_failed[c] =>
            /\ pc = "done"
            /\ c = Len(calls)
            /\ ~FallbackTaken
            /\ path = "sequential"
            /\ faults = <<>>
            /\ Len(rounds) = c - 1
            /\ \A j \in 1..Len(rounds) : rounds[j].path = "sequential" /\ rounds[j].reply = j

\* The third model call, issued after two rounds, failed.
C35_Witness ==
    /\ Done
    /\ Len(calls) = 3
    /\ call_failed = <<FALSE, FALSE, TRUE>>
    /\ Len(rounds) = 2
    /\ path = "sequential"

\* The turn list of the initial request.
RequestTurns == <<[role |-> "user", content |-> UserQuery]>>

\* The fallback has issued its final model call.
FallbackCalled == FallbackTaken /\ Len(calls) > faults[1].calls

\* C36: the turn list of the initial request is never changed by the
\* handlers, and the final model call of the fallback carries exactly the
\* user query, the assistant turn of the initial reply and, when the
\* fallback round produced results, one turn with these results; no turn
\* of the abandoned sequential rounds is in it.
C36_FallbackStartsFromRequest ==
    /\ calls # <<>> => base_messages = RequestTurns /\ calls[1].messages = RequestTurns
    /\ FallbackCalled =>
          LET rd == rounds[Len(rounds)] IN
          /\ rd.path = "fallback"
          /\ rd.reply = 1
          /\ calls[Len(calls)].messages =
                RequestTurns
                \o <<[role |-> "assistant", content |-> replies[1].content]>>
                \o (IF rd.results # <<>>
                    THEN <<[role |-> "user", content |-> rd.results]>>
                    ELSE <<>>)

\* The fault came in round 2, after a follow-up call of three turns; the
\* fallback round ended differently from round 1 and the final call was
\* issued on its results.
C36_Witness ==
    /\ Done
    /\ FallbackCalled
    /\ faults[1].calls = 2
    /\ Len(calls[2].messages) = 3
    /\ Len(rounds) = 2
    /\ rounds[1].results # rounds[2].results
    /\ Len(calls[3].messages) = 3

\* How many times the call with this id was dispatched to the tool manager.
DispatchCount(id) ==
    Cardinality({p \in UNION {{<<j, i>> : i \in 1..Len(rounds[j].dispatched)} : j \in 1..Len(rounds)} :
                    rounds[p[1]].dispatched[p[2]] = id})

\* C37: a tool call of the initial reply is dispatched at most twice, and
\* twice only when the sequential handler executed round 1 and the
\* fallback then ran its round; a tool call of a later reply is dispatched
\* at most once.
C37_DispatchedAtMostTwice ==
    \A k \in 1..Len(replies) :
        \A id \in ToolIds(replies[k]) :
            /\ DispatchCount(id) <= (IF k = 1 THEN 2 ELSE 1)
            /\ DispatchCount(id) = 2 =>
                  /\ FallbackTaken
                  /\ faults[1].calls >= 2
                  /\ Len(rounds) = 2
                  /\ rounds[1].path = "sequential"
                  /\ rounds[2].path = "fallback"

\* A tool call of the initial reply was executed in round 1 and again by
\* the fallback.
C37_Witness ==
    /\ Done
    /\ replies # <<>>
    /\ \E id \in ToolIds(replies[1]) : DispatchCount(id) = 2
    /\ outcome.kind = "return"

\* The role the i-th turn of an alternating conversation has.
AlternatingRole(i) == IF i % 2 = 1 THEN "user" ELSE "assistant"

\* The number of assistant turns of a turn list.
AssistantTurns(ms) == Cardinality({i \in 1..Len(ms) : ms[i].role = "assistant"})

\* C38: the k-th follow-up call of the sequential loop carries 1 + 2k
\* turns: the user query first, user and assistant turns alternating, each
\* assistant turn the reply of its round and each later user turn the
\* results of its round, the last turn being the results of round k.  The
\* round counter is at most 2 and, while the sequential handler runs,
\* equals the number of assistant turns it has appended.  Every model call
\* of the query has the same system instructions.
C38_LoopConversationShape ==
    /\ \A c \in SequentialCalls :
          LET ms == calls[c].messages
              k == c - 1
          IN /\ k \in 1..MAX_ROUNDS
             /\ Len(ms) = 1 + 2 * k
             /\ ms[1] = [role |-> "user", content |-> UserQuery]
             /\ \A i \in 1..Len(ms) : ms[i].role = AlternatingRole(i)
             /\ \A j \in 1..k :
                   /\ ms[2 * j] = [role |-> "assistant", content |-> replies[j].content]
                   /\ ms[2 * j + 1] = [role |-> "user", content |-> rounds[j].results]
                   /\ rounds[j].results # <<>>
    /\ round_count <= MAX_ROUNDS
    /\ path = "sequential" => round_count = AssistantTurns(messages)
    /\ \A c \in 1..Len(calls) : calls[c].system = calls[1].system

\* The loop issued both follow-up calls, the second on five turns.
C38_Witness ==
    /\ path = "sequential"
    /\ SequentialCalls = {2, 3}
    /\ Len(calls[3].messages) = 5
    /\ round_count = 2
    /\ ~call_failed[3]

-----------------------------------------------------------------------------
\* Claims about registration

\* The names under which a tool is registered.
RegisteredNames == {registry[i].name : i \in 1..Len(registry)}

\* C39: the registry holds at most one tool per name, each under the name
\* of its definition; a registration under a name that is taken puts the
\* new tool in the place of the earlier one, which is then no longer
\* reachable, and leaves the number of names as it was; the list of
\* advertised definitions has one entry per registered name.
C39_OneToolPerName ==
    /\ \A i, j \in 1..Len(registry) : registry[i].name = registry[j].name => i = j
    /\ \A i \in 1..Len(registry) : ToolName(registry[i].tool) = <<registry[i].name>>
    /\ Len(GetToolDefinitions(registry)) = Cardinality(RegisteredNames)
    /\ \A i \in 1..Len(registry) : GetToolDefinitions(registry)[i] \in RegisteredNames
    /\ (op.kind = "register" /\ ~op.raised) =>
          /\ Lookup(registry, ToolName(op.tool)[1]) = op.tool
          /\ \A i \in 1..Len(registry) :
                registry[i].name = ToolName(op.tool)[1] => registry[i].tool = op.tool
          /\ op.replaced # <<>> /\ op.replaced[1] # op.tool =>
                \A i \in 1..Len(registry) : registry[i].tool # op.replaced[1]
    /\ op.kind = "definitions" => Len(op.result) = Cardinality(RegisteredNames)
    /\ op.kind = "lookup" =>
          Cardinality({i \in 1..Len(registry) : registry[i].name = op.name}) = Len(op.found)

\* With both tools registered, a second search tool was registered and
\* took the place of the first.
C39_Witness ==
    /\ op.kind = "register"
    /\ op.tool = SEARCH_TOOL_2
    /\ op.replaced = <<SEARCH_TOOL>>
    /\ Len(registry) = 2
    /\ Lookup(registry, "search_course_content") = SEARCH_TOOL_2

====
